---- MODULE Spec2Model ----
(***************************************************************************)
(* A model of the Tenebra relay server: challenge-response login and the   *)
(* devices table (controllers/auth, models/AuthChallenge, models/Device,   *)
(* middleware/auth), one-time pre-key consumption (models/OneTimePreKey,   *)
(* services/KeyBundleService), the offline queue (models/QueuedMessage,    *)
(* controllers/messages) and the socket registry (socket.ts).              *)
(*                                                                         *)
(* Every `await` of a handler is a point where other requests run, so a    *)
(* handler is a sequence of steps, one per database statement.  The store  *)
(* is PostgreSQL at READ COMMITTED (knexfile sets no isolation level): a   *)
(* statement sees the rows committed when it starts, a row deleted or      *)
(* locked FOR UPDATE by an open transaction blocks other writers of that   *)
(* row until the transaction ends, and a writer that waited skips a row    *)
(* that is gone but does not see rows committed while it waited.           *)
(***************************************************************************)
EXTENDS Integers, Sequences, FiniteSets, TLC

VARIABLES
    \* ---- authentication ----
    users,          \* the users table: username -> identity_public_key
    now,            \* wall clock, in minutes
    challenges,     \* committed rows of auth_challenges
    devices,        \* committed rows of devices
    nextNonce,      \* number of nonces generateNonce has produced
    vc,             \* verifyChallenge requests in flight, per worker
    ic,             \* generateChallenge requests in flight, per worker
    rq,             \* one bearer-authenticated request
    tokens,         \* JWTs handed to clients, as (userId, deviceId) payloads
    lastLogin,      \* history, per user: the last completed login
    calls,          \* number of requests received so far
    issued,         \* history: the nonces generateChallenge has returned
    \* ---- registration ----
    registered,     \* rows of users inserted by register since the server started
    rg,             \* register requests in flight, per worker
    \* ---- key directory ----
    spks,           \* rows of signed_pre_keys
    otks,           \* committed rows of one_time_pre_keys
    nextOtk,        \* number of one_time_pre_keys rows inserted so far
    gb,             \* getPreKeyBundle requests in flight, per worker
    handed,         \* history: row id -> number of bundles that carried it
    stock,          \* history, per user: the bundles returned since the last upload
    \* ---- socket registry ----
    onlineClients,  \* the Map of socket.ts: <<userId, deviceId>> -> socket id, 0 for no entry
    socks,          \* every socket the server has seen
    nextSock,       \* number of sockets seen so far
    \* ---- offline queue ----
    queue,          \* committed rows of message_queue
    nextMsg,        \* number of message_queue rows inserted so far
    fq,             \* fetchOfflineMessages requests in flight, per worker
    sm,             \* the sendMessage request in flight, or its response
    ak,             \* the last deleteMessages request and its response
    delivered,      \* history: row id -> number of fetch responses that carried it
    \* ---- cleanup service ----
    started,        \* CleanupService.started
    tasks,          \* CleanupService.tasks: the ids of the tasks it holds
    cronTasks,      \* node-cron: task id -> its job and whether it runs
    lastCall,       \* history: the last call that took effect, start or stop
    reap,           \* per job: the callback in flight, and history of its last run
    \* ---- operations on their own ----
    lim,            \* a limit query parameter and the limit fetchOfflineMessages uses
    dk,             \* the deleteOldKeys call in flight, or the last one
    wire,           \* a ciphertext on its way: sent, stored, returned by a fetch
    touch,          \* the last_seen_at updates the bearer middleware has started
    revoked,        \* history: the tokens the bearer middleware has rejected
    uploads         \* history: whose pre-keys were written, and by which caller

authVars == <<users, now, challenges, devices, nextNonce, vc, ic, rq, tokens, lastLogin, calls,
              issued>>
regVars == <<registered, rg>>
keyVars == <<spks, otks, nextOtk, gb, handed, stock>>

sockVars == <<onlineClients, socks, nextSock>>
queueVars == <<queue, nextMsg, fq, sm, ak, delivered>>

schedVars == <<started, tasks, cronTasks, lastCall, reap>>

soloVars == <<lim, dk, wire, touch, revoked, uploads>>

vars == <<authVars, regVars, keyVars, sockVars, queueVars, schedVars, soloVars>>

None == "none"

----------------------------------------------------------------------------
(* Bounds of the model *)

MaxTime == 2
MaxCalls == 4
MaxOtk == 3
MaxSock == 3
MaxMsg == 3
MaxTasks == 4

(* Program constants *)

\* AuthChallenge.createForUser: expiresInMs = 2 * 60 * 1000, in minutes
ChallengeTtl == 2

\* CleanupService: MESSAGE_RETENTION_DAYS
MESSAGE_RETENTION_DAYS == 30

\* message_queue.expires_at: CURRENT_TIMESTAMP + INTERVAL '30 days'
ExpiresAfterDays == 30

\* n days on the clock, which counts minutes
Days(n) == n * 24 * 60

Users == {"alice"}
Accounts == Users \cup {"bob"}
Usernames == Users \cup {"nobody"}
DeviceIds == {"X", "Y"}
VProcs == {"v1", "v2"}
IProcs == {"i1", "i2"}
GProcs == {"g1", "g2"}
RProcs == {"r1", "r2"}
FProcs == {"f1", "f2"}
SignedKeyIds == {"spk1", "spk2"}

\* users.identity_public_key is stored by register as it was sent: base64 of
\* 32 bytes, or base64 of another length
KeyShapes == {"ed25519", "wrongsize"}

----------------------------------------------------------------------------
(* utils/crypto.ts *)

\* A signature is 0 (64 bytes that verify under no key) or n > 0: the
\* signature of the named user's identity key over nonce n.
verifySignature(publicKey, nonce, signature) ==
    CASE publicKey = "notbase64" -> "false"      \* decodeBase64: TypeError, caught
      [] publicKey = "wrongsize" -> "throw"      \* nacl: Error('bad public key size'), rethrown
      [] OTHER -> IF signature = nonce THEN "true" ELSE "false"

----------------------------------------------------------------------------
(* models/AuthChallenge *)

ChallengesOf(u) == {c \in challenges : c.user = u}

\* rows an open createForUser transaction has deleted and not yet committed
ChallengeLocked(c) ==
    \E q \in IProcs : ic[q].pc = "insert" /\ c \in ic[q].deleted

\* mutant: a challenge is still active at the instant it expires
findActiveByUserId_Due(u) ==
    LET live == {c \in ChallengesOf(u) : c.expires >= now}
    IN {c \in live : \A o \in live : o.created <= c.created}

\* where user_id = u and expires_at > now order by created_at desc, first():
\* the candidates are the rows with the greatest created_at
findActiveByUserId(u) ==
    LET live == {c \in ChallengesOf(u) : c.expires > now}
    IN {c \in live : \A o \in live : o.created <= c.created}

----------------------------------------------------------------------------
(* models/Device *)

DevicesOf(u) == {r \in devices : r.user = u}

findByUserIdAndDeviceId(u, d) == {r \in devices : r.user = u /\ r.dev = d}

\* mutant: upsertDevice deletes only the row of the same device
upsertDeviceDelete_SameDevice(u, d) == findByUserIdAndDeviceId(u, d)

\* the rows upsertDevice's first statement deletes: where user_id = u
upsertDeviceDelete(u, d) == DevicesOf(u)

----------------------------------------------------------------------------
(* controllers/auth: verifyChallenge *)

IdleV ==
    [pc |-> "idle", user |-> None, dev |-> None, sig |-> 0, valid |-> FALSE,
     found |-> 0, targets |-> {}, old |-> {}, status |-> 0, body |-> None,
     overlap |-> FALSE, stale |-> FALSE, late |-> FALSE]
\* (overlap is history: whether the call's device upsert ran while another
\* login of the same user was between its signature check and its response;
\* stale, late are history of the signature when the request arrived: it is
\* over a nonce that was superseded, over the nonce of a challenge row whose
\* expires_at is not in the future)

\* res.status(st).json(b): the request is over, its locals are gone
RespondV(r, st, b) ==
    [IdleV EXCEPT !.found = r.found, !.status = st, !.body = b,
                  !.stale = r.stale, !.late = r.late]

AuthFailedBody == "Authentication failed"

VerifyStart(p, name, d, s) ==
    /\ vc[p].pc = "idle"
    /\ calls < MaxCalls
    /\ calls' = calls + 1
    /\ LET r == [IdleV EXCEPT !.user = name, !.dev = d, !.sig = s,
                               !.stale = s \in issued.superseded,
                               !.late = \E c \in challenges :
                                           c.nonce = s /\ c.expires <= now]
       IN vc' = [vc EXCEPT ![p] =
                    IF name \notin Users
                    THEN RespondV(r, 401, AuthFailedBody)
                    ELSE [r EXCEPT !.pc = "findChallenge"]]
    /\ UNCHANGED <<users, now, challenges, devices, nextNonce, ic, rq, tokens, lastLogin, issued>>

VerifyFindChallenge(p) ==
    /\ vc[p].pc = "findChallenge"
    /\ LET act == findActiveByUserId(vc[p].user)
       IN IF act = {}
          THEN vc' = [vc EXCEPT ![p] =
                         RespondV(@, 400, "No active challenge found")]
          ELSE \E c \in act :
                 LET ok == verifySignature(users[vc[p].user], c.nonce, vc[p].sig)
                     r == [vc[p] EXCEPT !.found = c.nonce]
                 IN vc' = [vc EXCEPT ![p] =
                              IF ok = "throw"
                              THEN RespondV(r, 500, "Internal server error")
                              ELSE [r EXCEPT !.pc = "deleteChallenge",
                                             !.valid = (ok = "true")]]
    /\ UNCHANGED <<users, now, challenges, devices, nextNonce, ic, rq, tokens, lastLogin, calls, issued>>

Upserting(r) == r.pc \in {"upsertDelete", "upsertInsert", "countKeys"}

MarkOverlap(f) ==
    [q \in VProcs |->
        IF Upserting(f[q]) /\ \E o \in VProcs \ {q} :
                                Upserting(f[o]) /\ f[o].user = f[q].user
        THEN [f[q] EXCEPT !.overlap = TRUE]
        ELSE f[q]]

\* mutant: the device upsert follows the delete whatever the check said
AfterDeleteV_Always(r) ==
    [r EXCEPT !.pc = "upsertDelete", !.targets = {}]

AfterDeleteV(r) ==
    IF r.valid
    THEN [r EXCEPT !.pc = "upsertDelete", !.targets = {}]
    ELSE RespondV([r EXCEPT !.targets = {}], 401, AuthFailedBody)

\* AuthChallenge.deleteByUserId: one autocommit DELETE
VerifyDeleteChallenge(p) ==
    /\ vc[p].pc = "deleteChallenge"
    /\ LET t == ChallengesOf(vc[p].user)
       IN IF \E c \in t : ChallengeLocked(c)
          THEN /\ vc' = [vc EXCEPT ![p].pc = "deleteWait", ![p].targets = t]
               /\ UNCHANGED challenges
          ELSE /\ challenges' = challenges \ t
               /\ vc' = MarkOverlap([vc EXCEPT ![p] = AfterDeleteV(@)])
    /\ UNCHANGED <<users, now, devices, nextNonce, ic, rq, tokens, lastLogin, calls, issued>>

VerifyDeleteWait(p) ==
    /\ vc[p].pc = "deleteWait"
    /\ ~ \E c \in vc[p].targets \cap challenges : ChallengeLocked(c)
    /\ challenges' = challenges \ vc[p].targets
    /\ vc' = MarkOverlap([vc EXCEPT ![p] = AfterDeleteV(@)])
    /\ UNCHANGED <<users, now, devices, nextNonce, ic, rq, tokens, lastLogin, calls, issued>>

\* Device.upsertDevice, first statement: delete where user_id = u
VerifyUpsertDelete(p) ==
    /\ vc[p].pc = "upsertDelete"
    /\ devices' = devices \ upsertDeviceDelete(vc[p].user, vc[p].dev)
    /\ vc' = [vc EXCEPT ![p].pc = "upsertInsert", ![p].old = DevicesOf(vc[p].user)]
    /\ UNCHANGED <<users, now, challenges, nextNonce, ic, rq, tokens, lastLogin, calls, issued>>

\* Device.upsertDevice, second statement: insertAndFetch, which the unique
\* index on (user_id, device_id) may reject; then jwt.sign
VerifyUpsertInsert(p) ==
    /\ vc[p].pc = "upsertInsert"
    /\ IF findByUserIdAndDeviceId(vc[p].user, vc[p].dev) # {}
       THEN /\ vc' = [vc EXCEPT ![p] = RespondV(@, 500, "Internal server error")]
            /\ UNCHANGED devices
       ELSE /\ devices' = devices \cup {[user |-> vc[p].user, dev |-> vc[p].dev]}
            /\ vc' = [vc EXCEPT ![p].pc = "countKeys"]
    /\ UNCHANGED <<users, now, challenges, nextNonce, ic, rq, tokens, lastLogin, calls, issued>>

\* OneTimePreKey.countByUserId, then the 200 response carrying the token
VerifyRespond(p) ==
    /\ vc[p].pc = "countKeys"
    /\ vc' = [vc EXCEPT ![p] = RespondV(@, 200, "token")]
    /\ tokens' = tokens \cup {<<vc[p].user, vc[p].dev>>}
    /\ lastLogin' = [lastLogin EXCEPT ![vc[p].user] =
                        [dev |-> vc[p].dev, solo |-> ~vc[p].overlap]]
    /\ UNCHANGED <<users, now, challenges, devices, nextNonce, ic, rq, calls, issued>>

----------------------------------------------------------------------------
(* controllers/auth: generateChallenge, AuthChallenge.createForUser *)

\* prior: history, the nonces that had been returned to the user when the
\* request arrived
IdleI == [pc |-> "idle", user |-> None, nonce |-> 0, targets |-> {},
          deleted |-> {}, status |-> 0, prior |-> {}]

\* issued.returned: the (nonce, user) of every challenge returned so far;
\* issued.superseded: the nonces after whose response a later request of the
\* same user was made and has returned its own
NoneIssued == [returned |-> {}, superseded |-> {}]

\* mutant: createForUser inserts without deleting the user's challenges
createForUserDelete_None(u) == {}

\* createForUser, first statement: where({ user_id: userId }).delete()
createForUserDelete(u) == ChallengesOf(u)

\* findByUsername, generateNonce, then the transaction's DELETE starts
IssueStart(p, name) ==
    /\ ic[p].pc = "idle"
    /\ calls < MaxCalls
    /\ calls' = calls + 1
    /\ IF name \notin Users
       THEN /\ ic' = [ic EXCEPT ![p] = [IdleI EXCEPT !.status = 401]]
            /\ UNCHANGED nextNonce
       ELSE /\ nextNonce' = nextNonce + 1
            /\ LET t == createForUserDelete(name)
                   r == [IdleI EXCEPT !.user = name, !.nonce = nextNonce + 1,
                                      !.prior = {e.nonce : e \in {x \in issued.returned :
                                                                    x.user = name}}]
               IN ic' = [ic EXCEPT ![p] =
                            IF \E c \in t : ChallengeLocked(c)
                            THEN [r EXCEPT !.pc = "deleteWait", !.targets = t]
                            ELSE [r EXCEPT !.pc = "insert", !.deleted = t]]
    /\ UNCHANGED <<users, now, challenges, devices, vc, rq, tokens, lastLogin, issued>>

IssueDeleteWait(p) ==
    /\ ic[p].pc = "deleteWait"
    /\ ~ \E c \in ic[p].targets \cap challenges : ChallengeLocked(c)
    /\ ic' = [ic EXCEPT ![p].pc = "insert", ![p].targets = {},
                        ![p].deleted = ic[p].targets \cap challenges]
    /\ UNCHANGED <<users, now, challenges, devices, nextNonce, vc, rq, tokens, lastLogin, calls, issued>>

\* insertAndFetch with expires_at = Date.now() + expiresInMs, then COMMIT
IssueInsertCommit(p) ==
    /\ ic[p].pc = "insert"
    /\ challenges' = (challenges \ ic[p].deleted) \cup
          {[nonce |-> ic[p].nonce, user |-> ic[p].user,
            expires |-> now + ChallengeTtl, created |-> now]}
    /\ ic' = [ic EXCEPT ![p] = [IdleI EXCEPT !.status = 200]]
    /\ issued' = [returned |-> issued.returned \cup
                                   {[nonce |-> ic[p].nonce, user |-> ic[p].user]},
                  superseded |-> issued.superseded \cup ic[p].prior]
    /\ UNCHANGED <<users, now, devices, nextNonce, vc, rq, tokens, lastLogin, calls>>

----------------------------------------------------------------------------
(* middleware/auth: authenticate, and controllers/auth: logout *)

NoLogin == [dev |-> None, solo |-> TRUE]

IdleR == [pc |-> "idle", user |-> None, dev |-> None, status |-> 0]

\* the middleware's answer to a request carrying the token minted for (u, d)
authenticate(u, d) ==
    IF findByUserIdAndDeviceId(u, d) = {} THEN 401 ELSE 0

Authenticate(u, d) ==
    /\ rq.pc = "idle"
    /\ calls < MaxCalls
    /\ calls' = calls + 1
    /\ <<u, d>> \in tokens
    /\ rq' = IF authenticate(u, d) = 401
             THEN [IdleR EXCEPT !.user = u, !.dev = d, !.status = 401]
             ELSE [IdleR EXCEPT !.user = u, !.dev = d, !.pc = "logout"]
    /\ UNCHANGED <<users, now, challenges, devices, nextNonce, vc, ic, tokens, lastLogin, issued>>

\* mutant: the delete ignores the user
deleteByUserIdAndDeviceId_AnyUser(u, d) == {r \in devices : r.dev = d}

\* Device.deleteByUserIdAndDeviceId: the rows it deletes
deleteByUserIdAndDeviceId(u, d) == {r \in devices : r.user = u /\ r.dev = d}

\* logout, behind the authenticate middleware
Logout ==
    /\ rq.pc = "logout"
    /\ devices' = devices \ deleteByUserIdAndDeviceId(rq.user, rq.dev)
    /\ rq' = [rq EXCEPT !.pc = "idle", !.status = 200]
    /\ lastLogin' = [u \in Users |->
                        IF u = rq.user /\ lastLogin[u].dev = rq.dev THEN NoLogin
                        ELSE lastLogin[u]]
    /\ UNCHANGED <<users, now, challenges, nextNonce, vc, ic, tokens, calls, issued>>

Tick ==
    /\ now < MaxTime
    /\ now' = now + 1
    /\ UNCHANGED <<users, challenges, devices, nextNonce, vc, ic, rq, tokens, lastLogin, calls, issued>>


----------------------------------------------------------------------------
(* routes/users.ts: register *)

\* username of a register request: one that is registered, or a new one
NewNames == {"dave", "erin"}
RegisterNames == Users \cup NewNames

\* the fields of a register request: all present, or one missing
RegisterBodies == {"ok", "missing"}

\* User.findByUsername: the rows of the table with the username
findByUsername(name) ==
    {[username |-> u] : u \in Users \cap {name}} \cup
        {[username |-> r.username] : r \in {x \in registered : x.username = name}}

\* dup: history, the username had a row when the request's last statement
\* ran and the request inserted none
IdleRg == [pc |-> "idle", username |-> None, status |-> 0, created |-> 0, dup |-> FALSE]

RespondRg(r, st) == [r EXCEPT !.pc = "idle", !.status = st]

\* register: the check of the fields
RegisterStart(p, name, body) ==
    /\ rg[p].pc = "idle"
    /\ rg' = [rg EXCEPT ![p] =
                 IF body # "ok" THEN RespondRg(IdleRg, 400)
                 ELSE [IdleRg EXCEPT !.pc = "find", !.username = name]]
    /\ UNCHANGED registered

\* const existingUser = await User.findByUsername(username)
RegisterFind(p) ==
    /\ rg[p].pc = "find"
    /\ rg' = [rg EXCEPT ![p] =
                 IF findByUsername(rg[p].username) # {}
                 THEN [RespondRg(@, 409) EXCEPT !.dup = TRUE]
                 ELSE [@ EXCEPT !.pc = "insert"]]
    /\ UNCHANGED registered

\* User.query().insertAndFetch(...): users.username is unique, so the insert
\* of a username that has a row by now throws and the catch answers 500
RegisterInsert(p) ==
    /\ rg[p].pc = "insert"
    /\ IF findByUsername(rg[p].username) # {}
       THEN /\ rg' = [rg EXCEPT ![p] = [RespondRg(@, 500) EXCEPT !.dup = TRUE]]
            /\ UNCHANGED registered
       ELSE LET id == Cardinality(registered) + 1
            IN /\ registered' = registered \cup {[id |-> id, username |-> rg[p].username]}
               /\ rg' = [rg EXCEPT ![p] = [RespondRg(@, 201) EXCEPT !.created = id]]

RegisterStep ==
    \/ \E p \in RProcs, name \in RegisterNames, body \in RegisterBodies :
          RegisterStart(p, name, body)
    \/ \E p \in RProcs : RegisterFind(p)
    \/ \E p \in RProcs : RegisterInsert(p)

RegisterIdle ==
    /\ registered = {}
    /\ rg = [p \in RProcs |-> IdleRg]

----------------------------------------------------------------------------
(* models/OneTimePreKey, services/KeyBundleService *)

\* A one_time_pre_keys row is [id, user, created]: id stands for the row's
\* uuid (and for its key_id, unique per user), created for created_at, which
\* the rows of one batch share.
OtksOf(u) == {k \in otks : k.user = u}

\* A signed_pre_keys row is [user, keyId, created]; its public_key and
\* signature are not modelled.
SpksOf(u) == {k \in spks : k.user = u}

\* SignedPreKey.findLatestByUserId: orderBy('created_at', 'desc').first(),
\* a row of the user with the greatest created_at
findLatestByUserId(u) == {k \in SpksOf(u) : \A o \in SpksOf(u) : o.created <= k.created}

\* SignedPreKey.upsert: patch public_key and signature of the row of
\* (user_id, key_id), which keeps its created_at, else insert the row
UploadSignedPreKey(u, kid) ==
    /\ spks' = IF \E k \in SpksOf(u) : k.keyId = kid THEN spks
               ELSE spks \cup {[user |-> u, keyId |-> kid, created |-> now]}
    /\ UNCHANGED <<otks, nextOtk, gb, handed, stock>>

\* spk: the key_id of the signed pre-key of the bundle
IdleG == [pc |-> "idle", user |-> None, spk |-> None, snap |-> {}, held |-> {}, key |-> 0,
          waited |-> FALSE, status |-> 0, got |-> 0]

\* mutant: consumeOne selects without forUpdate()
OtkLockedByOther_NoLock(p, k) == FALSE

\* forUpdate(): a row another open consumeOne transaction has locked
OtkLockedByOther(p, k) ==
    \E q \in GProcs \ {p} : gb[q].pc = "delete" /\ k \in gb[q].held

\* orderBy('created_at', 'asc') ... first(): a row with the least created_at
Oldest(rows) == {k \in rows : \A o \in rows : k.created <= o.created}

\* OneTimePreKey.countByUserId
countByUserId(u) == Cardinality(OtksOf(u))

\* avail: the user's rows after the last createBatch; started: the
\* getPreKeyBundle calls for the user since then; withKey, without: the
\* bundles they returned with and without a one-time pre-key; clean: no
\* call was in flight when the batch was inserted.
NoStock == [avail |-> 0, started |-> 0, withKey |-> 0, without |-> 0, clean |-> TRUE]

\* the bundle of r is returned
Served(r) ==
    IF r.pc # "idle" THEN stock
    ELSE IF r.got = 0 THEN [stock EXCEPT ![r.user].without = @ + 1]
    ELSE [stock EXCEPT ![r.user].withKey = @ + 1]

\* OneTimePreKey.createBatch: one INSERT of n rows
UploadOneTimePreKeys(u, n) ==
    /\ nextOtk + n <= MaxOtk
    /\ otks' = otks \cup {[id |-> i, user |-> u, created |-> nextOtk + 1] :
                            i \in (nextOtk + 1)..(nextOtk + n)}
    /\ nextOtk' = nextOtk + n
    /\ stock' = [stock EXCEPT ![u] =
                    [NoStock EXCEPT !.avail = Cardinality(OtksOf(u)) + n,
                                    !.clean = \A p \in GProcs : gb[p].pc = "idle"]]
    /\ UNCHANGED <<spks, gb, handed>>

\* res.json(bundle) of the request r: k is the one-time pre-key row in the
\* bundle, 0 for none
RespondG(r, k) == [IdleG EXCEPT !.user = r.user, !.spk = r.spk, !.status = 200, !.got = k]

\* User.query().findById, which throws on an id that is not a uuid: the
\* route answers 500
GetBundleStart(p, name) ==
    /\ gb[p].pc = "idle"
    /\ IF name \notin Users
       THEN /\ gb' = [gb EXCEPT ![p] =
                         [IdleG EXCEPT !.user = name,
                                       !.status = IF name = "not-a-uuid" THEN 500 ELSE 404]]
            /\ UNCHANGED stock
       ELSE /\ stock[name].started < MaxCalls
            /\ gb' = [gb EXCEPT ![p] = [IdleG EXCEPT !.pc = "signedPreKey", !.user = name]]
            /\ stock' = [stock EXCEPT ![name].started = @ + 1]
    /\ UNCHANGED <<spks, otks, nextOtk, handed>>

\* SignedPreKey.findLatestByUserId
GetBundleSignedPreKey(p) ==
    /\ gb[p].pc = "signedPreKey"
    /\ LET latest == findLatestByUserId(gb[p].user)
       IN IF latest = {}
          THEN gb' = [gb EXCEPT ![p] = [IdleG EXCEPT !.user = gb[p].user, !.status = 404]]
          ELSE \E k \in latest :
                  gb' = [gb EXCEPT ![p] = [@ EXCEPT !.pc = "select", !.spk = k.keyId]]
    /\ UNCHANGED <<spks, otks, nextOtk, handed, stock>>

\* the SELECT ... FOR UPDATE has locked the rows `rows`: commit with no key
\* when there is none, else go on to delete the first
AfterLock(r, rows, w) ==
    IF rows = {}
    THEN {[RespondG(r, 0) EXCEPT !.waited = w]}
    ELSE {[r EXCEPT !.pc = "delete", !.snap = {}, !.held = rows,
                    !.key = k.id, !.waited = w] : k \in Oldest(rows)}

\* consumeOne: BEGIN; SELECT * WHERE user_id = u ORDER BY created_at FOR UPDATE
\* (first() adds no LIMIT: every row of the user is locked)
ConsumeSelect(p) ==
    /\ gb[p].pc = "select"
    /\ LET rows == OtksOf(gb[p].user)
       IN IF \E k \in rows : OtkLockedByOther(p, k)
          THEN gb' = [gb EXCEPT ![p].pc = "lockWait", ![p].snap = rows]
          ELSE \E r \in AfterLock(gb[p], rows, FALSE) : gb' = [gb EXCEPT ![p] = r]
    /\ stock' = Served(gb'[p])
    /\ UNCHANGED <<spks, otks, nextOtk, handed>>

\* mutant: a SELECT that waited returns no row
RowsAfterWait_None(p) == {}

\* the rows a SELECT that waited for a lock returns: rows deleted meanwhile
\* are skipped, rows inserted meanwhile are not seen
RowsAfterWait(p) == gb[p].snap \cap otks

\* the SELECT resumes when the locks are released
ConsumeLockWait(p) ==
    /\ gb[p].pc = "lockWait"
    /\ LET rows == RowsAfterWait(p)
       IN /\ ~ \E k \in rows : OtkLockedByOther(p, k)
          /\ \E r \in AfterLock(gb[p], rows, TRUE) : gb' = [gb EXCEPT ![p] = r]
    /\ stock' = Served(gb'[p])
    /\ UNCHANGED <<spks, otks, nextOtk, handed>>

\* deleteById(key.id); COMMIT; the bundle is returned with the key
ConsumeDeleteCommit(p) ==
    /\ gb[p].pc = "delete"
    /\ otks' = {k \in otks : k.id # gb[p].key}
    /\ handed' = [handed EXCEPT ![gb[p].key] = @ + 1]
    /\ gb' = [gb EXCEPT ![p] = [RespondG(gb[p], gb[p].key) EXCEPT
                                    !.waited = gb[p].waited]]
    /\ stock' = Served(gb'[p])
    /\ UNCHANGED <<spks, nextOtk>>

KeyStep ==
    \/ \E u \in Users, kid \in SignedKeyIds : UploadSignedPreKey(u, kid)
    \/ \E u \in Users, n \in 1..2 : UploadOneTimePreKeys(u, n)
    \/ \E p \in GProcs, name \in Usernames : GetBundleStart(p, name)
    \/ \E p \in GProcs : GetBundleSignedPreKey(p)
    \/ \E p \in GProcs : ConsumeSelect(p)
    \/ \E p \in GProcs : ConsumeLockWait(p)
    \/ \E p \in GProcs : ConsumeDeleteCommit(p)


----------------------------------------------------------------------------
(* socket.ts: the registry of online clients *)

Sockets == 1..MaxSock

\* clientKey(userId, deviceId)
ClientKeys == Users \X DeviceIds
clientKey(userId, deviceId) == <<userId, deviceId>>

\* handshake.auth.token: absent, one verifyToken rejects, or one it accepts
HandshakeTokens == {"absent", "invalid"} \cup ClientKeys

\* st: "new" (not seen yet), "rejected" (the middleware called next(err)),
\* "admitted" (the middleware called next()), "connected" (the connection
\* handler has run), "closing" (disconnect(true) called, 'disconnect' not
\* delivered yet), "closed" ('disconnect' delivered).
\* kicked, stale: history of how the socket went away.
\* verified, hadDevice: history of the handshake: verifyToken accepted the
\* token, a Device row of its (userId, deviceId) existed.
NoSocket == [st |-> "new", user |-> None, dev |-> None, kicked |-> FALSE, stale |-> FALSE,
             verified |-> FALSE, hadDevice |-> FALSE]

\* mutant: the middleware does not look for the Device row
HandshakeAccepts_NoDeviceCheck(tok) == tok \in ClientKeys /\ tok \in tokens

\* the middleware calls next() without an error
HandshakeAccepts(tok) ==
    /\ tok \in ClientKeys
    /\ tok \in tokens
    /\ findByUserIdAndDeviceId(tok[1], tok[2]) # {}

\* io.sockets.sockets.get(id): the sockets the namespace still holds
InNamespace(id) == socks[id].st \in {"connected", "closing"}

\* mutant: the disconnect handler never finds its socket current
IsCurrent_Never(current, id) == FALSE

\* mutant: the disconnect handler deletes the entry whatever it holds
IsCurrent_Always(current, id) == TRUE

\* current && current.socketId === socket.id
IsCurrent(current, id) == current = id

\* mutant: the connection handler keeps an entry it finds
Registered_KeepExisting(existing, id) == IF existing # 0 THEN existing ELSE id

\* onlineClients.set(key, {..., socketId: socket.id})
Registered(existing, id) == id

\* socket.on('disconnect'): the registry after the handler of socket id ran
OnDisconnect(reg, id) ==
    LET key == clientKey(socks[id].user, socks[id].dev)
    IN IF IsCurrent(reg[key], id) THEN [reg EXCEPT ![key] = 0] ELSE reg

\* io.use(...): the authentication middleware of a new socket
Handshake(tok) ==
    /\ nextSock < MaxSock
    /\ nextSock' = nextSock + 1
    /\ LET id == nextSock + 1
           verified == tok \in ClientKeys /\ tok \in tokens
           hadDevice == verified /\ \E r \in devices : r.user = tok[1] /\ r.dev = tok[2]
           seen == [NoSocket EXCEPT !.verified = verified, !.hadDevice = hadDevice]
       IN socks' = [socks EXCEPT ![id] =
                       IF HandshakeAccepts(tok)
                       THEN [seen EXCEPT !.st = "admitted", !.user = tok[1], !.dev = tok[2]]
                       ELSE [seen EXCEPT !.st = "rejected"]]
    /\ UNCHANGED onlineClients

\* io.on('connection'): kick the socket registered under the key, register
\* this one.  existing.disconnect(true) delivers the old socket's 'disconnect'
\* either before it returns (sync) or on a later turn of the event loop.
OnConnection(id, sync) ==
    /\ socks[id].st = "admitted"
    /\ LET key == clientKey(socks[id].user, socks[id].dev)
           existing == onlineClients[key]
           kick == existing # 0 /\ InNamespace(existing)
           reg == IF kick /\ sync THEN OnDisconnect(onlineClients, existing) ELSE onlineClients
           kicked == IF ~kick THEN socks
                     ELSE [socks EXCEPT ![existing].st = IF sync THEN "closed" ELSE "closing",
                                        ![existing].kicked = TRUE]
       IN /\ onlineClients' = [reg EXCEPT ![key] = Registered(reg[key], id)]
          /\ socks' = [kicked EXCEPT ![id].st = "connected"]
    /\ UNCHANGED nextSock

\* the 'disconnect' event of a socket: the client left, the transport
\* dropped, or a disconnect(true) completed
DisconnectEvent(id) ==
    /\ InNamespace(id)
    /\ LET key == clientKey(socks[id].user, socks[id].dev)
       IN socks' = [socks EXCEPT ![id].st = "closed",
                                 ![id].stale = onlineClients[key] \notin {0, id}]
    /\ onlineClients' = OnDisconnect(onlineClients, id)
    /\ UNCHANGED nextSock

\* findOnlineDeviceForUser: the registry entries of a user
findOnlineDeviceForUser(userId) ==
    {onlineClients[k] : k \in {c \in ClientKeys : c[1] = userId}} \ {0}

SocketStep ==
    \/ \E tok \in HandshakeTokens : Handshake(tok)
    \/ \E id \in Sockets, sync \in BOOLEAN : OnConnection(id, sync)
    \/ \E id \in Sockets : DisconnectEvent(id)


----------------------------------------------------------------------------
(* controllers/messages.ts, models/QueuedMessage: the offline queue *)

\* A message_queue row is [id, to, from, created, expires]; rows are created
\* in the order of their ids, so ORDER BY created_at is the order of id.
\* The insert sets neither timestamp: created_at and expires_at are the
\* defaults of the table.
NewMessage(id, to, from) ==
    [id |-> id, to |-> to, from |-> from, created |-> now,
     expires |-> now + Days(ExpiresAfterDays)]

QueueOf(u) == {m.id : m \in {r \in queue : r.to = u}}

\* parseInt(req.query.limit, 10): 0 also stands for NaN (limit absent or
\* not a number), which || treats alike
LimitInputs == {0 - 1, 0, 2, 500}

\* mutant: the lower clamp is missing
FetchLimit_NoFloor(raw) ==
    LET n == IF raw = 0 THEN 100 ELSE raw
    IN IF n > 100 THEN 100 ELSE n

\* Math.min(Math.max(parseInt(req.query.limit, 10) || 100, 1), 100)
FetchLimit(raw) ==
    LET n == IF raw = 0 THEN 100 ELSE raw
        lo == IF n < 1 THEN 1 ELSE n
    IN IF lo > 100 THEN 100 ELSE lo

\* the characters of a limit query parameter: a sign, digits, a letter
QueryChars == {"-", "0", "1", "7", "x"}
Digits == {"0", "1", "7"}
MaxQuery == 3

DigitValue(c) == CASE c = "0" -> 0 [] c = "1" -> 1 [] c = "7" -> 7

\* the value of the longest prefix of digits of s, read after acc
RECURSIVE LeadingDigits(_, _)
LeadingDigits(s, acc) ==
    IF s = <<>> \/ Head(s) \notin Digits THEN acc
    ELSE LeadingDigits(Tail(s), 10 * acc + DigitValue(Head(s)))

\* parseInt(string, 10): an optional sign, then the longest prefix of
\* digits; NaN when there is no digit
parseInt(s) ==
    LET neg == s # <<>> /\ Head(s) = "-"
        body == IF neg THEN Tail(s) ELSE s
        v == LeadingDigits(body, 0)
    IN [nan |-> body = <<>> \/ Head(body) \notin Digits,
        val |-> IF neg THEN 0 - v ELSE v]

\* req.query.limit: absent (undefined, which parseInt reads as NaN), or a
\* string
Queries ==
    {[present |-> FALSE, text |-> <<>>]} \cup
    {[present |-> TRUE, text |-> t] :
        t \in UNION {[1..n -> QueryChars] : n \in 0..MaxQuery}}

\* the limit fetchOfflineMessages computes from the query parameter
QueryLimit(q) ==
    LET r == parseInt(q.text)
    IN FetchLimit(IF ~q.present \/ r.nan THEN 0 ELSE r.val)

NoLimit == [query |-> [present |-> FALSE, text |-> <<>>], limit |-> 0]

\* const limit = ... in fetchOfflineMessages
ComputeLimit ==
    /\ lim.limit = 0
    /\ lim' = [lim EXCEPT !.limit = QueryLimit(lim.query)]
    /\ UNCHANGED <<dk, wire, touch, revoked, uploads>>

\* keepLatest of a deleteOldKeys call
MaxKeep == 2

\* keepIds: the rows the first statement selected; done: the call returned
IdleDk == [pc |-> "idle", user |-> None, n |-> 0, keepIds |-> {}, done |-> FALSE]

\* where user_id = u orderBy('created_at', 'desc').limit(n): the sets of
\* rows the select can return, rows of equal created_at in either order
LatestN(u, n) ==
    LET rows == SpksOf(u)
        size == IF Cardinality(rows) < n THEN Cardinality(rows) ELSE n
    IN {K \in SUBSET rows :
          /\ Cardinality(K) = size
          /\ \A k \in K, o \in rows \ K : o.created <= k.created}

\* if (keepIds.length === 0) return 0
NothingToKeep(keepIds) == keepIds = {}

\* SignedPreKey.deleteOldKeys, first statement, and the early return
DeleteOldSelect(u, n) ==
    /\ dk.pc = "idle"
    /\ \E K \in LatestN(u, n) :
          dk' = IF NothingToKeep(K)
                THEN [IdleDk EXCEPT !.user = u, !.n = n, !.done = TRUE]
                ELSE [IdleDk EXCEPT !.pc = "delete", !.user = u, !.n = n, !.keepIds = K]
    /\ UNCHANGED <<spks, lim, wire, touch, revoked, uploads>>

\* second statement: where user_id = u whereNotIn('id', keepIds) delete
DeleteOldDelete ==
    /\ dk.pc = "delete"
    /\ spks' = {k \in spks : k.user # dk.user \/ k \in dk.keepIds}
    /\ dk' = [dk EXCEPT !.pc = "idle", !.keepIds = {}, !.done = TRUE]
    /\ UNCHANGED <<lim, wire, touch, revoked, uploads>>

----------------------------------------------------------------------------
(* controllers/messages: the ciphertext of a message, in and out *)

\* A character of the base64 alphabet is written as the six bits it stands
\* for (A is 0, Q is 16, R is 17, / is 63), and = as Pad.
Pad == 64
Sextets == {0, 16, 17, 63}
MaxCipher == 4

\* the ciphertext strings of a send request
Ciphertexts == UNION {[1..n -> Sextets \cup {Pad}] : n \in 1..MaxCipher}

\* the characters of s before the first =
RECURSIVE UpToPad(_)
UpToPad(s) ==
    IF s = <<>> \/ Head(s) = Pad THEN <<>>
    ELSE <<Head(s)>> \o UpToPad(Tail(s))

\* /^[A-Za-z0-9+/]*={0,2}$/.test(ciphertext), for a string that is not empty
IsBase64(s) ==
    LET data == UpToPad(s)
        pads == Len(s) - Len(data)
    IN /\ pads <= 2
       /\ \A i \in Len(data) + 1 .. Len(s) : s[i] = Pad

\* validateSendInput, its checks of the ciphertext: the error, or None
CiphertextError(s) ==
    IF s = <<>> THEN "missing"
    ELSE IF ~IsBase64(s) THEN "not base64"
    ELSE None

\* the bytes of a run of base64 characters: four characters give three
\* bytes; of an incomplete last group the whole bytes are kept and the
\* bits left over are dropped
RECURSIVE DecodeSextets(_)
DecodeSextets(d) ==
    IF Len(d) <= 1 THEN <<>>
    ELSE LET b1 == d[1] * 4 + d[2] \div 16
         IN IF Len(d) = 2 THEN <<b1>>
            ELSE LET b2 == (d[2] % 16) * 16 + d[3] \div 4
                 IN IF Len(d) = 3 THEN <<b1, b2>>
                    ELSE <<b1, b2, (d[3] % 4) * 64 + d[4]>>
                            \o DecodeSextets(SubSeq(d, 5, Len(d)))

\* Buffer.from(ciphertext, 'base64'): decoding stops at the first =
BufferFromBase64(s) == DecodeSextets(UpToPad(s))

\* buffer.toString('base64'): three bytes give four characters, the last
\* group is padded with =
RECURSIVE toStringBase64(_)
toStringBase64(b) ==
    IF b = <<>> THEN <<>>
    ELSE IF Len(b) = 1
         THEN <<b[1] \div 4, (b[1] % 4) * 16, Pad, Pad>>
    ELSE IF Len(b) = 2
         THEN <<b[1] \div 4, (b[1] % 4) * 16 + b[2] \div 16, (b[2] % 16) * 4, Pad>>
    ELSE <<b[1] \div 4, (b[1] % 4) * 16 + b[2] \div 16,
           (b[2] % 16) * 4 + b[3] \div 64, b[3] % 64>>
            \o toStringBase64(SubSeq(b, 4, Len(b)))

\* status: 0 before the send, 400 or 201 after it; fetched: a fetch has
\* returned the row
NoWire == [sent |-> <<>>, status |-> 0, stored |-> <<>>, fetched |-> FALSE,
           returned |-> <<>>]

\* sendMessage to an offline recipient: validate, decode, insert
SendCiphertext ==
    /\ wire.status = 0
    /\ wire' = IF CiphertextError(wire.sent) # None
               THEN [wire EXCEPT !.status = 400]
               ELSE [wire EXCEPT !.status = 201,
                                 !.stored = BufferFromBase64(wire.sent)]
    /\ UNCHANGED <<lim, dk, touch, revoked, uploads>>

\* fetchOfflineMessages: the row comes back with its payload encoded
FetchCiphertext ==
    /\ wire.status = 201 /\ ~wire.fetched
    /\ wire' = [wire EXCEPT !.fetched = TRUE,
                            !.returned = toStringBase64(wire.stored)]
    /\ UNCHANGED <<lim, dk, touch, revoked, uploads>>

----------------------------------------------------------------------------
(* middleware/auth: authenticate, the update of last_seen_at *)

\* pending: the updates started and not settled, each with the Device row
\* the middleware found and whether that row has been deleted since;
\* settled, last: the number of updates that settled, and how the last ended
NoTouch == [pending |-> {}, settled |-> 0, last |-> None]

\* Device.updateLastSeen(device.id) is started and not awaited: the
\* request goes on to next() in the same step
StartUpdate(t, u, d) ==
    [t EXCEPT !.pending = @ \cup {[row |-> [user |-> u, dev |-> d], gone |-> FALSE]}]

\* a row that is deleted takes its id with it: an update started for it
\* finds no row any more, also when a row of the same device is inserted
\* later
MarkGone(t, rows) ==
    [t EXCEPT !.pending = {[e EXCEPT !.gone = e.gone \/ e.row \notin rows] : e \in @}]

\* mutant: the update writes the row it was started for back
updateLastSeen_Upsert(e) == devices \cup {e.row}

\* Device.updateLastSeen: patchAndFetchById(id, { last_seen_at }), an
\* UPDATE ... WHERE id of the devices table; last_seen_at is not among the
\* columns of a row here, so the rows read the same afterwards
updateLastSeen(e) == devices

\* the update settles: it is rejected (ok false, caught and logged), it
\* patches the row, or it finds no row with the id
UpdateLastSeen(ok) ==
    \E e \in touch.pending :
        /\ devices' = IF ok THEN updateLastSeen(e) ELSE devices
        /\ touch' = [pending |-> touch.pending \ {e},
                     settled |-> touch.settled + 1,
                     last |-> IF ~ok THEN "failed"
                              ELSE IF e.gone \/ e.row \notin devices THEN "norow"
                              ELSE "patched"]
        /\ UNCHANGED <<users, now, challenges, nextNonce, vc, ic, rq, tokens,
                       lastLogin, calls, issued>>

SoloIdle ==
    lim = NoLimit /\ dk = IdleDk /\ wire = NoWire /\ touch = NoTouch /\ revoked = {} /\ uploads = {}

\* mutant: the select takes the newest rows
FirstN_Newest(ids, n) == {i \in ids : Cardinality({j \in ids : j > i}) < n}

\* orderBy('created_at', 'asc'): the rows in the order of the response
RECURSIVE OrderByCreatedAt(_)
OrderByCreatedAt(ids) ==
    IF ids = {} THEN <<>>
    ELSE LET first == CHOOSE i \in ids : \A j \in ids : i <= j
         IN <<first>> \o OrderByCreatedAt(ids \ {first})

\* orderBy('created_at', 'asc').limit(n)
FirstN(ids, n) == {i \in ids : Cardinality({j \in ids : j < i}) < n}

\* recipientId of a send: an account, a registered user that never logged
\* in, or a string that is not a UUID
Recipients == Accounts \cup {"carol", "not-a-uuid"}

\* the (ciphertext, type) of a send
SendBodies == {"ok", "notBase64", "badType"}

\* validateSendInput: the fields, or an error string
validateSendInput(body) == IF body = "ok" THEN "ok" ELSE "error"

\* mutant: the relay never finds the socket connected
SocketConnected_Never(id) == FALSE

\* socket && socket.connected, of io.sockets.sockets.get(online.socketId)
SocketConnected(id) == InNamespace(id)

\* emitted, inserted, live, nodev: history of the request.  live: an entry of
\* the recipient with a connected socket existed when the registry was read;
\* nodev: the request passed validation and no Device row of the recipient
\* existed when the table was read.
IdleS == [pc |-> "idle", sender |-> None, to |-> None, status |-> 0, delivered |-> FALSE,
          messageId |-> 0, emitted |-> {}, inserted |-> {}, live |-> FALSE, nodev |-> FALSE]

RespondS(r, st) == [r EXCEPT !.pc = "idle", !.status = st]

\* sendMessage, for an authenticated sender: validation, the self-send check
sendMessage(sender, recipientId, body) ==
    /\ sm.pc = "idle"
    /\ DevicesOf(sender) # {}
    /\ LET r == [IdleS EXCEPT !.sender = sender, !.to = recipientId]
       IN sm' = IF validateSendInput(body) # "ok" THEN RespondS(IdleS, 400)
                ELSE IF recipientId = sender THEN RespondS(IdleS, 400)
                ELSE [r EXCEPT !.pc = "findDevices"]
    /\ UNCHANGED <<queue, nextMsg, fq, ak, delivered>>

\* Device.findByUserId(recipientId), which throws on a user_id that is not
\* a uuid; then findOnlineDeviceForUser and the emit, with no await between
SendRelay ==
    /\ sm.pc = "findDevices"
    /\ LET online == findOnlineDeviceForUser(sm.to)
           r == [sm EXCEPT !.nodev = DevicesOf(sm.to) = {},
                           !.live = \E id \in online : InNamespace(id)]
       IN IF sm.to = "not-a-uuid" THEN sm' = RespondS(r, 500)
          ELSE IF DevicesOf(sm.to) = {} THEN sm' = RespondS(r, 404)
          ELSE IF online = {} THEN sm' = [r EXCEPT !.pc = "insert"]
          ELSE \E id \in online :
                  sm' = IF SocketConnected(id)
                        THEN [RespondS(r, 200) EXCEPT !.emitted = {id}, !.delivered = TRUE]
                        ELSE [r EXCEPT !.pc = "insert"]
    /\ UNCHANGED <<queue, nextMsg, fq, ak, delivered>>

\* QueuedMessage.query().insertAndFetch(...); res.status(201)
SendInsert ==
    /\ sm.pc = "insert"
    /\ nextMsg < MaxMsg
    /\ nextMsg' = nextMsg + 1
    /\ queue' = queue \cup {NewMessage(nextMsg + 1, sm.to, sm.sender)}
    /\ sm' = [RespondS(sm, 201) EXCEPT !.inserted = {nextMsg + 1}, !.messageId = nextMsg + 1]
    /\ UNCHANGED <<fq, ak, delivered>>

\* the sends of the senders from
SendStep(from) ==
    \/ \E a \in from, b \in Recipients, body \in SendBodies : sendMessage(a, b, body)
    \/ SendRelay
    \/ SendInsert

\* seen, got, after, solo, done: history of the request, kept until the
\* worker's next request.  after: the drains of the same recipient that were
\* in flight when this one started; solo: no drain of the same recipient was
\* in flight at any time during this one.
IdleF == [pc |-> "idle", user |-> None, limit |-> 0, snap |-> {}, held |-> {},
          seen |-> {}, got |-> {}, after |-> {}, solo |-> TRUE, done |-> FALSE]

\* mutant: fetchAndDelete selects without forUpdate()
MsgLockedByOther_NoLock(p, i) == FALSE

\* forUpdate(): a row another open fetchAndDelete transaction has locked
MsgLockedByOther(p, i) ==
    \E o \in FProcs \ {p} : fq[o].pc = "delete" /\ i \in fq[o].held

\* mutant: the delete removes nothing
DeletedByFetch_None(u, ids) == {}

\* mutant: the delete removes every row of the recipient
DeletedByFetch_AllOfRecipient(u, ids) == QueueOf(u)

\* whereIn('id', ids).delete(): the rows the transaction deletes
DeletedByFetch(u, ids) == ids

\* fetchOfflineMessages: the request of an authenticated user; BEGIN, and
\* the SELECT takes its snapshot
FetchStart(p, u, raw) ==
    /\ fq[p].pc = "idle"
    /\ DevicesOf(u) # {}
    /\ fq' = [o \in FProcs |->
                IF o = p
                THEN [IdleF EXCEPT !.pc = "select", !.user = u, !.limit = FetchLimit(raw),
                                   !.snap = QueueOf(u), !.seen = QueueOf(u),
                                   !.after = {e \in FProcs \ {p} :
                                                 fq[e].pc # "idle" /\ fq[e].user = u},
                                   !.solo = ~ \E e \in FProcs \ {p} :
                                                 fq[e].pc # "idle" /\ fq[e].user = u]
                ELSE [fq[o] EXCEPT !.after = @ \ {p},
                                   !.solo = @ /\ ~ (fq[o].pc # "idle" /\ fq[o].user = u)]]
    /\ UNCHANGED <<queue, nextMsg, sm, ak, delivered>>

\* SELECT ... ORDER BY created_at LIMIT n FOR UPDATE: rows of the snapshot
\* deleted meanwhile are skipped, the first n left are locked once no other
\* transaction holds one of them; with no row the transaction commits
FetchSelect(p) ==
    /\ fq[p].pc = "select"
    /\ LET rows == FirstN(fq[p].snap \cap QueueOf(fq[p].user), fq[p].limit)
       IN /\ ~ \E i \in rows : MsgLockedByOther(p, i)
          /\ fq' = [fq EXCEPT ![p] =
                       IF rows = {}
                       THEN [@ EXCEPT !.pc = "idle", !.snap = {}, !.done = TRUE]
                       ELSE [@ EXCEPT !.pc = "delete", !.snap = {}, !.held = rows]]
    /\ UNCHANGED <<queue, nextMsg, sm, ak, delivered>>

\* whereIn('id', ids).delete(); COMMIT; the rows are the response
FetchDeleteCommit(p) ==
    /\ fq[p].pc = "delete"
    /\ queue' = {m \in queue : m.id \notin DeletedByFetch(fq[p].user, fq[p].held)}
    /\ delivered' = [i \in 1..MaxMsg |-> IF i \in fq[p].held THEN delivered[i] + 1
                                         ELSE delivered[i]]
    /\ fq' = [fq EXCEPT ![p] = [@ EXCEPT !.pc = "idle", !.held = {}, !.got = fq[p].held,
                                         !.done = TRUE]]
    /\ UNCHANGED <<nextMsg, sm, ak>>

\* mutant: the delete ignores the recipient
AckTargets_AnyRecipient(caller, ids) == {m \in queue : m.id \in ids}

\* whereIn('id', messageIds).andWhere({ recipient_id: req.user.userId })
AckTargets(caller, ids) == {m \in queue : m.id \in ids /\ m.to = caller}

\* req.body.messageIds: nothing, one or two ids of rows that were queued, or
\* 0 for a string that is not a UUID
AckInputs == {ids \in SUBSET (1..nextMsg) : Cardinality(ids) <= 2} \cup {{0}}

\* removed: history, the rows the request deleted
IdleA == [caller |-> None, ids |-> {}, status |-> 0, deleted |-> 0, removed |-> {}]

\* deleteMessages, for an authenticated caller.  The DELETE waits while a
\* fetchAndDelete transaction holds a lock on one of its rows.
deleteMessages(caller, ids) ==
    /\ DevicesOf(caller) # {}
    /\ IF ids = {} \/ 0 \in ids
       THEN /\ ak' = [IdleA EXCEPT !.status = 400]
            /\ UNCHANGED <<queue, fq>>
       ELSE LET rows == AckTargets(caller, ids)
            IN /\ ~ \E m \in rows, p \in FProcs : fq[p].pc = "delete" /\ m.id \in fq[p].held
               /\ queue' = queue \ rows
               /\ ak' = [caller |-> caller, ids |-> ids, status |-> 200,
                         deleted |-> Cardinality(rows), removed |-> rows]
               /\ fq' = [p \in FProcs |->
                           IF fq[p].pc # "idle" /\ fq[p].user = caller /\ rows # {}
                           THEN [fq[p] EXCEPT !.solo = FALSE] ELSE fq[p]]
    /\ UNCHANGED <<nextMsg, sm, delivered>>

\* the drains of the users in who, on the workers in procs
FetchStep(procs, who) ==
    \/ \E p \in procs, u \in who, raw \in LimitInputs : FetchStart(p, u, raw)
    \/ \E p \in procs : FetchSelect(p)
    \/ \E p \in procs : FetchDeleteCommit(p)

\* bob sends, alice drains her queue from two clients
QueueStep ==
    \/ SendStep({"bob"})
    \/ FetchStep(FProcs, {"alice"})


----------------------------------------------------------------------------
(* services/CleanupService *)

CronTaskIds == 1..MaxTasks

NoTask == [job |-> None, running |-> FALSE]

\* the jobs of start(), in the order it schedules them
CleanupJobs == <<"authChallenges", "messageQueue">>

\* mutant: start() does not look at the flag
AlreadyStarted_Never == FALSE

\* if (this.started) return
AlreadyStarted == started

\* CleanupService.start(): cron.schedule twice, unless already started
start ==
    IF AlreadyStarted
    THEN UNCHANGED schedVars
    ELSE /\ LET used == {t \in CronTaskIds : cronTasks[t].job # None}
                base == Cardinality(used)
            IN /\ base + Len(CleanupJobs) <= MaxTasks
               /\ cronTasks' = [t \in CronTaskIds |->
                                  IF t \in (base + 1)..(base + Len(CleanupJobs))
                                  THEN [job |-> CleanupJobs[t - base], running |-> TRUE]
                                  ELSE cronTasks[t]]
               /\ tasks' = tasks \o [i \in 1..Len(CleanupJobs) |-> base + i]
         /\ started' = TRUE
         /\ lastCall' = "start"
         /\ UNCHANGED reap

\* CleanupService.stop(): task.stop() for every task, then forget them
stop ==
    /\ cronTasks' = [t \in CronTaskIds |->
                       IF \E i \in 1..Len(tasks) : tasks[i] = t
                       THEN [cronTasks[t] EXCEPT !.running = FALSE]
                       ELSE cronTasks[t]]
    /\ tasks' = <<>>
    /\ started' = FALSE
    /\ lastCall' = "stop"
    /\ UNCHANGED reap

\* A callback of a job: pc is where it stands; the other fields are history
\* of the job's last run.  at, end: the clock when its first and its last
\* statement ran; removed: the rows the run has deleted; last: the rows its
\* last statement deleted; outcome: None while it runs, then "ok" or
\* "failed"; failedBefore: an earlier run of the job failed.
IdleReap ==
    [pc |-> "idle", at |-> 0, end |-> 0, removed |-> {}, last |-> {}, outcome |-> None,
     failedBefore |-> FALSE]

\* catch (error) { console.error(...) }: the run is over
ReapFailed(r) ==
    [r EXCEPT !.pc = "idle", !.last = {}, !.outcome = "failed", !.failedBefore = TRUE]

\* mutant: cleanupExpired has no where clause
ExpiredChallenges_All == challenges

\* AuthChallenge.cleanupExpired: where('expires_at', '<', new Date())
ExpiredChallenges == {c \in challenges : c.expires < now}

\* the callback of the authChallenges job: AuthChallenge.cleanupExpired, which
\* waits while a createForUser transaction holds one of its rows; ok: the
\* statement does not throw
PurgeChallenges(t, ok) ==
    /\ cronTasks[t].running /\ cronTasks[t].job = "authChallenges"
    /\ LET expired == ExpiredChallenges
           r == [reap["authChallenges"] EXCEPT !.at = now, !.end = now, !.removed = {}]
       IN IF ok
          THEN /\ ~ \E c \in expired : ChallengeLocked(c)
               /\ challenges' = challenges \ expired
               /\ reap' = [reap EXCEPT !["authChallenges"] =
                              [r EXCEPT !.removed = expired, !.last = expired,
                                        !.outcome = "ok"]]
          ELSE /\ UNCHANGED challenges
               /\ reap' = [reap EXCEPT !["authChallenges"] = ReapFailed(r)]
    /\ UNCHANGED <<users, now, devices, nextNonce, vc, ic, rq, tokens, lastLogin, calls, issued>>
    /\ UNCHANGED <<started, tasks, cronTasks, lastCall>>

\* a DELETE waits while a fetchAndDelete transaction holds one of its rows
MsgLocked(m) == \E p \in FProcs : fq[p].pc = "delete" /\ m.id \in fq[p].held

\* mutant: cleanupExpired also takes the rows that expire now
ExpiredMessages_OrDue == {m \in queue : m.expires <= now}

\* QueuedMessage.cleanupExpired: where('expires_at', '<', new Date())
ExpiredMessages == {m \in queue : m.expires < now}

\* cutoff.setDate(cutoff.getDate() - MESSAGE_RETENTION_DAYS);
\* where('created_at', '<', cutoff)
StaleMessages ==
    LET cutoff == now - Days(MESSAGE_RETENTION_DAYS)
    IN {m \in queue : m.created < cutoff}

\* a drain of the recipient that is in flight was disturbed
Disturb(f, rows) ==
    [p \in FProcs |->
        IF f[p].pc # "idle" /\ \E m \in rows : m.to = f[p].user
        THEN [f[p] EXCEPT !.solo = FALSE] ELSE f[p]]

\* the callback of the messageQueue job, 2a: QueuedMessage.cleanupExpired
ReapExpired(t, ok) ==
    /\ cronTasks[t].running /\ cronTasks[t].job = "messageQueue"
    /\ reap["messageQueue"].pc = "idle"
    /\ LET expired == ExpiredMessages
           r == [reap["messageQueue"] EXCEPT !.at = now, !.end = now, !.removed = {},
                                             !.outcome = None]
       IN IF ok
          THEN /\ ~ \E m \in expired : MsgLocked(m)
               /\ queue' = queue \ expired
               /\ fq' = Disturb(fq, expired)
               /\ reap' = [reap EXCEPT !["messageQueue"] =
                              [r EXCEPT !.pc = "stale", !.removed = expired,
                                        !.last = expired]]
          ELSE /\ UNCHANGED <<queue, fq>>
               /\ reap' = [reap EXCEPT !["messageQueue"] = ReapFailed(r)]
    /\ UNCHANGED <<nextMsg, sm, ak, delivered>>
    /\ UNCHANGED <<started, tasks, cronTasks, lastCall>>

\* the callback of the messageQueue job, 2b: the rows older than the
\* retention window; it runs to its end after a stop()
ReapStale(ok) ==
    /\ reap["messageQueue"].pc = "stale"
    /\ LET stale == StaleMessages
           r == [reap["messageQueue"] EXCEPT !.end = now]
       IN IF ok
          THEN /\ ~ \E m \in stale : MsgLocked(m)
               /\ queue' = queue \ stale
               /\ fq' = Disturb(fq, stale)
               /\ reap' = [reap EXCEPT !["messageQueue"] =
                              [r EXCEPT !.pc = "idle", !.removed = @ \cup stale,
                                        !.last = stale, !.outcome = "ok"]]
          ELSE /\ UNCHANGED <<queue, fq>>
               /\ reap' = [reap EXCEPT !["messageQueue"] = ReapFailed(r)]
    /\ UNCHANGED <<nextMsg, sm, ak, delivered>>
    /\ UNCHANGED <<started, tasks, cronTasks, lastCall>>

SchedulerIdle ==
    /\ started = FALSE
    /\ tasks = <<>>
    /\ cronTasks = [t \in CronTaskIds |-> NoTask]
    /\ lastCall = None
    /\ reap = [j \in {"authChallenges", "messageQueue"} |-> IdleReap]

----------------------------------------------------------------------------
InitAuth ==
    /\ users \in [Users -> KeyShapes]
    /\ now = 0
    /\ challenges = {}
    /\ devices = {}
    /\ nextNonce = 0
    /\ vc = [p \in VProcs |-> IdleV]
    /\ ic = [p \in IProcs |-> IdleI]
    /\ rq = IdleR
    /\ tokens = {}
    /\ lastLogin = [u \in Users |-> NoLogin]
    /\ calls = 0
    /\ issued = NoneIssued

\* the other components as the server starts
SocketsIdle ==
    /\ onlineClients = [k \in ClientKeys |-> 0]
    /\ socks = [s \in Sockets |-> NoSocket]
    /\ nextSock = 0

QueueIdle ==
    /\ queue = {}
    /\ nextMsg = 0
    /\ fq = [p \in FProcs |-> IdleF]
    /\ sm = IdleS
    /\ ak = IdleA
    /\ delivered = [i \in 1..MaxMsg |-> 0]

KeysIdle ==
    /\ spks = {}
    /\ otks = {}
    /\ nextOtk = 0
    /\ gb = [p \in GProcs |-> IdleG]
    /\ handed = [i \in 1..MaxOtk |-> 0]
    /\ stock = [u \in Users |-> NoStock]

LoginStep ==
    \/ \E p \in VProcs, name \in Usernames, d \in DeviceIds, s \in 0..nextNonce :
          VerifyStart(p, name, d, s)
    \/ \E p \in VProcs : VerifyFindChallenge(p)
    \/ \E p \in VProcs : VerifyDeleteChallenge(p)
    \/ \E p \in VProcs : VerifyDeleteWait(p)
    \/ \E p \in VProcs : VerifyUpsertDelete(p)
    \/ \E p \in VProcs : VerifyUpsertInsert(p)
    \/ \E p \in VProcs : VerifyRespond(p)
    \/ \E p \in IProcs, name \in Usernames : IssueStart(p, name)
    \/ \E p \in IProcs : IssueDeleteWait(p)
    \/ \E p \in IProcs : IssueInsertCommit(p)
    \/ \E u \in Users, d \in DeviceIds : Authenticate(u, d)
    \/ Logout

NextLogin == LoginStep /\ UNCHANGED <<regVars, keyVars, sockVars, queueVars, schedVars, soloVars>>

NextAuth == (LoginStep \/ Tick) /\ UNCHANGED <<regVars, keyVars, sockVars, queueVars, schedVars, soloVars>>

\* login and logout with the clock standing still
\* the server started on a migrated, empty database
InitServer == InitAuth /\ RegisterIdle /\ KeysIdle /\ SocketsIdle /\ QueueIdle /\ SchedulerIdle /\ SoloIdle

SpecLogin == InitServer /\ [][NextLogin]_vars

\* the same with time passing, so that challenges expire
SpecAuth == InitServer /\ [][NextAuth]_vars

\* :userId of a bundle request: the id of a user, a uuid that no user has,
\* or a string that is not a uuid
BundleIds == Usernames \cup {"not-a-uuid"}

\* alice uploads signed pre-keys and one-time pre-keys as time passes, and
\* bundles are requested, one at a time
NextBundle ==
    /\ \/ /\ \/ \E kid \in SignedKeyIds : UploadSignedPreKey("alice", kid)
             \/ UploadOneTimePreKeys("alice", 1)
             \/ \E name \in BundleIds : GetBundleStart("g1", name)
             \/ GetBundleSignedPreKey("g1")
             \/ ConsumeSelect("g1")
             \/ ConsumeDeleteCommit("g1")
          /\ UNCHANGED authVars
       \/ Tick /\ UNCHANGED keyVars
    /\ UNCHANGED <<regVars, sockVars, queueVars, schedVars, soloVars>>

SpecBundle == InitServer /\ [][NextBundle]_vars

NextRegister ==
    RegisterStep /\ UNCHANGED <<authVars, keyVars, sockVars, queueVars, schedVars, soloVars>>

SpecRegister == InitServer /\ [][NextRegister]_vars

NextKeys == KeyStep /\ UNCHANGED <<authVars, regVars, sockVars, queueVars, schedVars, soloVars>>

SpecKeys == InitServer /\ [][NextKeys]_vars

\* a state the login flow reaches: the accounts accts are logged in on X;
\* alice was logged in on Y before and still holds that token
SessionsOf(accts) ==
    /\ users = [u \in Users |-> "ed25519"]
    /\ now = 0
    /\ challenges = {}
    /\ devices = {[user |-> u, dev |-> "X"] : u \in accts}
    /\ nextNonce = 0
    /\ vc = [p \in VProcs |-> IdleV]
    /\ ic = [p \in IProcs |-> IdleI]
    /\ rq = IdleR
    /\ tokens = {<<u, "X">> : u \in accts} \cup {<<"alice", "Y">>}
    /\ lastLogin = [u \in Users |-> [dev |-> "X", solo |-> TRUE]]
    /\ calls = 0
    /\ issued = NoneIssued

LoggedIn == SessionsOf(Users)

PeersLoggedIn == SessionsOf(Accounts)

\* alice and bob have a device row; alice is online or not
AliceOnline ==
    /\ onlineClients = [k \in ClientKeys |-> IF k = <<"alice", "X">> THEN 1 ELSE 0]
    /\ socks = [s \in Sockets |->
                   IF s = 1 THEN [NoSocket EXCEPT !.st = "connected", !.user = "alice", !.dev = "X",
                                                  !.verified = TRUE, !.hadDevice = TRUE]
                   ELSE NoSocket]
    /\ nextSock = 1

NextQueue == QueueStep /\ UNCHANGED <<authVars, regVars, keyVars, sockVars, schedVars, soloVars>>

InitQueue == PeersLoggedIn /\ RegisterIdle /\ KeysIdle /\ (SocketsIdle \/ AliceOnline) /\ QueueIdle /\ SchedulerIdle /\ SoloIdle

SpecQueue == InitQueue /\ [][NextQueue]_vars

\* alice and bob drain and acknowledge what they have written to each other
NextInbox ==
    /\ \/ FetchStep({"f1"}, Accounts)
       \/ \E u \in Accounts, ids \in AckInputs : deleteMessages(u, ids)
    /\ UNCHANGED <<authVars, regVars, keyVars, sockVars, schedVars, soloVars>>

\* a state sends reach: MaxMsg messages between alice and bob are queued,
\* the last send has just been answered
QueueFilled ==
    /\ \E to \in [1..MaxMsg -> Accounts] :
          /\ queue = {NewMessage(i, to[i], CHOOSE a \in Accounts : a # to[i]) :
                         i \in 1..MaxMsg}
          /\ sm = [IdleS EXCEPT !.sender = CHOOSE a \in Accounts : a # to[MaxMsg],
                                !.to = to[MaxMsg], !.status = 201,
                                !.messageId = MaxMsg, !.inserted = {MaxMsg}]
    /\ nextMsg = MaxMsg
    /\ fq = [p \in FProcs |-> IdleF]
    /\ ak = IdleA
    /\ delivered = [i \in 1..MaxMsg |-> 0]

InitInbox == PeersLoggedIn /\ RegisterIdle /\ KeysIdle /\ SocketsIdle /\ QueueFilled /\ SchedulerIdle /\ SoloIdle

SpecInbox == InitInbox /\ [][NextInbox]_vars

\* alice logs in and out while bob, logged in on X, uses his token
NextSession ==
    /\ \/ LoginStep
       \/ \E d \in DeviceIds : Authenticate("bob", d)
    /\ UNCHANGED <<regVars, keyVars, sockVars, queueVars, schedVars, soloVars>>

InitSession == PeersLoggedIn /\ RegisterIdle /\ KeysIdle /\ SocketsIdle /\ QueueIdle /\ SchedulerIdle /\ SoloIdle

SpecSession == InitSession /\ [][NextSession]_vars

\* a challenge of alice was issued ChallengeTtl ago and has just expired
AgedChallenge ==
    /\ users = [u \in Users |-> "ed25519"]
    /\ now = 0
    /\ challenges = {[nonce |-> 1, user |-> "alice", expires |-> 0, created |-> 0 - ChallengeTtl]}
    /\ devices = {}
    /\ nextNonce = 1
    /\ vc = [p \in VProcs |-> IdleV]
    /\ ic = [p \in IProcs |-> IdleI]
    /\ rq = IdleR
    /\ tokens = {}
    /\ lastLogin = [u \in Users |-> NoLogin]
    /\ calls = 1
    /\ issued = [NoneIssued EXCEPT !.returned = {[nonce |-> 1, user |-> "alice"]}]

\* ages of queued messages: a minute more than the retention window, the
\* window, a day less
QueueAges ==
    {Days(MESSAGE_RETENTION_DAYS) + 1, Days(MESSAGE_RETENTION_DAYS),
     Days(MESSAGE_RETENTION_DAYS - 1)}

\* a state sends reach: bob's messages to alice have waited in the queue for
\* the days of QueueAges, the oldest first; one more message can be sent
AgedQueue ==
    /\ \E age \in [1..(MaxMsg - 1) -> QueueAges] :
          /\ \A i, j \in 1..(MaxMsg - 1) : i < j => age[i] >= age[j]
          /\ queue = {[id |-> i, to |-> "alice", from |-> "bob",
                       created |-> 0 - age[i],
                       expires |-> 0 - age[i] + Days(ExpiresAfterDays)] :
                         i \in 1..(MaxMsg - 1)}
    /\ nextMsg = MaxMsg - 1
    /\ fq = [p \in FProcs |-> IdleF]
    /\ sm = IdleS
    /\ ak = IdleA
    /\ delivered = [i \in 1..MaxMsg |-> 0]

\* the cleanup service is started and stopped while challenges are issued
\* and expire
NextScheduler ==
    /\ \/ start /\ UNCHANGED authVars
       \/ stop /\ UNCHANGED authVars
       \/ \E t \in CronTaskIds, ok \in BOOLEAN : PurgeChallenges(t, ok)
       \/ (\E p \in IProcs, name \in Usernames : IssueStart(p, name)) /\ UNCHANGED schedVars
       \/ (\E p \in IProcs : IssueDeleteWait(p)) /\ UNCHANGED schedVars
       \/ (\E p \in IProcs : IssueInsertCommit(p)) /\ UNCHANGED schedVars
       \/ Tick /\ UNCHANGED schedVars
    /\ UNCHANGED <<regVars, keyVars, sockVars, queueVars, soloVars>>

InitScheduler == AgedChallenge /\ RegisterIdle /\ KeysIdle /\ SocketsIdle /\ QueueIdle /\ SchedulerIdle /\ SoloIdle

SpecScheduler == InitScheduler /\ [][NextScheduler]_vars

\* the service is started and its two jobs tick, and a tick may fail, while
\* alice asks for challenges, one request at a time, and time passes
NextJobs ==
    /\ \/ start /\ UNCHANGED <<authVars, queueVars>>
       \/ \E t \in CronTaskIds, ok \in BOOLEAN : PurgeChallenges(t, ok) /\ UNCHANGED queueVars
       \/ \E t \in CronTaskIds, ok \in BOOLEAN : ReapExpired(t, ok) /\ UNCHANGED authVars
       \/ \E ok \in BOOLEAN : ReapStale(ok) /\ UNCHANGED authVars
       \/ IssueStart("i1", "alice") /\ UNCHANGED <<schedVars, queueVars>>
       \/ IssueInsertCommit("i1") /\ UNCHANGED <<schedVars, queueVars>>
       \/ Tick /\ UNCHANGED <<schedVars, queueVars>>
    /\ UNCHANGED <<regVars, keyVars, sockVars, soloVars>>

InitJobs == AgedChallenge /\ RegisterIdle /\ KeysIdle /\ SocketsIdle /\ AgedQueue /\ SchedulerIdle /\ SoloIdle

SpecJobs == InitJobs /\ [][NextJobs]_vars

\* the messageQueue job ticks while bob sends and time passes
NextReaper ==
    /\ \/ start /\ UNCHANGED <<authVars, queueVars>>
       \/ stop /\ UNCHANGED <<authVars, queueVars>>
       \/ \E t \in CronTaskIds, ok \in BOOLEAN : ReapExpired(t, ok) /\ UNCHANGED authVars
       \/ \E ok \in BOOLEAN : ReapStale(ok) /\ UNCHANGED authVars
       \/ SendStep({"bob"}) /\ UNCHANGED <<authVars, schedVars>>
       \/ Tick /\ UNCHANGED <<schedVars, queueVars>>
    /\ UNCHANGED <<regVars, keyVars, sockVars, soloVars>>

InitReaper == PeersLoggedIn /\ RegisterIdle /\ KeysIdle /\ SocketsIdle /\ AgedQueue /\ SchedulerIdle /\ SoloIdle

SpecReaper == InitReaper /\ [][NextReaper]_vars

InitRelay == PeersLoggedIn /\ RegisterIdle /\ KeysIdle /\ SocketsIdle /\ QueueIdle /\ SchedulerIdle /\ SoloIdle

\* sends while clients connect and disconnect
NextRelay ==
    /\ \/ SocketStep /\ UNCHANGED queueVars
       \/ SendStep({"bob"}) /\ UNCHANGED sockVars
    /\ UNCHANGED <<authVars, regVars, keyVars, schedVars, soloVars>>

SpecRelay == InitRelay /\ [][NextRelay]_vars

NextSocket == SocketStep /\ UNCHANGED <<authVars, regVars, keyVars, queueVars, schedVars, soloVars>>

InitLoggedIn == LoggedIn /\ RegisterIdle /\ KeysIdle /\ SocketsIdle /\ QueueIdle /\ SchedulerIdle /\ SoloIdle

SpecSocket == InitLoggedIn /\ [][NextSocket]_vars

\* clients connect and disconnect while alice logs out
NextHandshake ==
    /\ \/ SocketStep /\ UNCHANGED authVars
       \/ (\E d \in DeviceIds : Authenticate("alice", d)) /\ UNCHANGED sockVars
       \/ Logout /\ UNCHANGED sockVars
    /\ UNCHANGED <<regVars, keyVars, queueVars, schedVars, soloVars>>

SpecHandshake == InitLoggedIn /\ [][NextHandshake]_vars

----------------------------------------------------------------------------
(* Claims about authentication, checked under SpecAuth *)

\* C1 (SS-1): in every reachable state, the intermediate states of concurrent
\* verifyChallenge calls included, the devices table holds at most one row per
\* user.
C1_SingleSession ==
    \A u \in Users : Cardinality(DevicesOf(u)) <= 1

\* C2: while a successful verifyChallenge replaces the device row of a user
\* who had one, a reader of the user's Device rows sees exactly one row: the
\* old one or the new one, never both and never none.
ReplacingDevice(p) ==
    \/ vc[p].pc = "upsertDelete" /\ DevicesOf(vc[p].user) # {}
    \/ vc[p].pc = "upsertInsert" /\ vc[p].old # {}

C2_AtomicReplace ==
    \A p \in VProcs :
        ReplacingDevice(p) => Cardinality(DevicesOf(vc[p].user)) = 1

LoginUnderWay(u) ==
    \E p \in VProcs : vc[p].user = u /\ Upserting(vc[p])

\* y's login is the last one completed for u, no later login of u has begun
\* its upsert and u has not logged out of y; x is a device a token was issued to
TakenOver(u, x, y) ==
    /\ x # y
    /\ lastLogin[u].dev = y
    /\ ~LoginUnderWay(u)
    /\ <<u, x>> \in tokens

C7_OneActiveChallenge ==
    \A u \in Users :
        Cardinality({c \in ChallengesOf(u) : c.expires > now}) <= 1

\* C8: a verifyChallenge call that found an active challenge has deleted it
\* when it returns, whether the signature check succeeded, failed or raised.
C8_ChallengeConsumed ==
    \A p \in VProcs :
        (vc[p].pc = "idle" /\ vc[p].found # 0)
            => ~ \E c \in challenges : c.nonce = vc[p].found

\* C4 (OTK-1): no one-time pre-key row is carried by more than one returned
\* bundle, and a row that a bundle carried is no longer in the store.
C4_KeyHandedOnce ==
    \A i \in 1..MaxOtk :
        /\ handed[i] <= 1
        /\ handed[i] = 1 => ~ \E k \in otks : k.id = i

\* two getBundle calls for alice raced for the row locks and both returned
C4_Witness ==
    /\ gb["g1"].pc = "idle" /\ gb["g2"].pc = "idle"
    /\ gb["g1"].got # 0 /\ gb["g2"].got # 0
    /\ gb["g1"].waited \/ gb["g2"].waited

\* C9: when the 'disconnect' of a socket S1 is delivered while the registry
\* entry of its key holds another socket S2, the registry is left as it was.
C9_StaleDisconnectKeepsEntry ==
    [][\A id \in Sockets :
          (/\ InNamespace(id)
           /\ socks'[id].st = "closed"
           /\ onlineClients[clientKey(socks[id].user, socks[id].dev)] \notin {0, id})
          => onlineClients' = onlineClients]_vars

\* S1's 'disconnect' arrived after S2 had registered; S2 is still the entry
C9_Witness ==
    \E s1, s2 \in Sockets :
        /\ s1 # s2
        /\ socks[s1].st = "closed" /\ socks[s1].stale
        /\ socks[s2].st = "connected"
        /\ onlineClients[clientKey(socks[s2].user, socks[s2].dev)] = s2
        /\ socks[s1].user = socks[s2].user /\ socks[s1].dev = socks[s2].dev

\* C10: once the connection handler of a socket S2 has run, every socket that
\* was registered under its key before is being or has been disconnected and
\* the registry maps the key to S2, whether the 'disconnect' of the old socket
\* was delivered before the insert or is delivered after it.
C10_KickOnReconnect ==
    \A s2 \in Sockets :
        socks[s2].st = "connected" =>
            /\ onlineClients[clientKey(socks[s2].user, socks[s2].dev)] = s2
            /\ \A s1 \in Sockets \ {s2} :
                   (socks[s1].user = socks[s2].user /\ socks[s1].dev = socks[s2].dev)
                   => socks[s1].st # "connected"

\* S1 was kicked by S2's connection handler and S2 is the entry
C10_Witness ==
    \E s1, s2 \in Sockets :
        /\ socks[s1].kicked /\ socks[s1].st \in {"closing", "closed"}
        /\ socks[s2].st = "connected"
        /\ socks[s1].user = socks[s2].user /\ socks[s1].dev = socks[s2].dev
        /\ onlineClients[clientKey(socks[s2].user, socks[s2].dev)] = s2

\* C5 (Q-1): no message_queue row is returned by more than one
\* fetchOfflineMessages call, however the calls interleave.
C5_DeliveredOnce == \A i \in 1..MaxMsg : delivered[i] <= 1

\* two drains of one recipient were in flight together and both returned rows
C5_Witness ==
    \E e, l \in FProcs :
        /\ e \in fq[l].after
        /\ fq[e].done /\ fq[l].done
        /\ fq[e].got # {} /\ fq[l].got # {}

\* e and l are finished drains of one recipient, l started while e was in flight
Interleaved(e, l) == e \in fq[l].after /\ fq[e].done /\ fq[l].done

\* no row has left the queue without being in some fetch response
NoSilentDelete ==
    \A i \in 1..nextMsg : (\A m \in queue : m.id # i) => delivered[i] >= 1

\* C6 as claimed: two interleaved drains return disjoint sets whose union is
\* the set of rows visible when the earlier one started, and no row is deleted
\* without having been returned.
C6_UnionIsEarlierSnapshot ==
    /\ NoSilentDelete
    /\ \A e, l \in FProcs :
           Interleaved(e, l) =>
               /\ fq[e].got \cap fq[l].got = {}
               /\ fq[e].got \cup fq[l].got = fq[e].seen

\* C6 as amended: two interleaved drains return disjoint sets, each within the
\* rows visible when it started; when the earlier drain returned fewer rows
\* than its limit, every row visible when it started has been returned to a
\* caller; and no row is deleted without having been returned.
C6_DisjointDrains ==
    /\ NoSilentDelete
    /\ \A e, l \in FProcs :
           Interleaved(e, l) =>
               /\ fq[e].got \cap fq[l].got = {}
               /\ fq[e].got \subseteq fq[e].seen
               /\ fq[l].got \subseteq fq[l].seen
               /\ Cardinality(fq[e].got) < fq[e].limit
                      => \A i \in fq[e].seen : delivered[i] = 1

\* two interleaved drains shared out the rows the earlier one saw
C6_Witness ==
    \E e, l \in FProcs :
        /\ Interleaved(e, l)
        /\ fq[e].got # {} /\ fq[l].got # {}
        /\ Cardinality(fq[e].got) < fq[e].limit
        /\ fq[e].got \cup fq[l].got = fq[e].seen

\* a send has been answered after passing validation and the device check
SendRelayed == sm.pc = "idle" /\ sm.status \in {200, 201}

\* C11: a send that passes validation and the recipient-device check either
\* (a) found a registry entry of the recipient with a connected socket,
\* emitted one new_message to it, answered delivered:true and inserted no row,
\* or (b) found no such entry, inserted exactly one row, emitted nothing and
\* answered delivered:false with the id of that row.
C11_RelayOrQueue ==
    SendRelayed =>
        \/ /\ sm.live /\ sm.delivered /\ sm.status = 200
           /\ Cardinality(sm.emitted) = 1
           /\ \A id \in sm.emitted : socks[id].user = sm.to
           /\ sm.inserted = {}
        \/ /\ ~sm.live /\ ~sm.delivered /\ sm.status = 201
           /\ sm.emitted = {}
           /\ Cardinality(sm.inserted) = 1
           /\ sm.inserted = {sm.messageId}

\* a send was queued while alice was offline, a later one was relayed to her
\* socket
C11_Witness == SendRelayed /\ sm.live /\ sm.emitted # {} /\ queue # {}

\* a send has been answered with an error
SendRejected == sm.pc = "idle" /\ sm.status \notin {0, 200, 201}

\* C19: a rejected send emits no new_message and inserts no row; it is
\* answered 404 when the recipient has no Device row and 400 otherwise.
C19_RejectedSend ==
    SendRejected =>
        /\ sm.emitted = {} /\ sm.inserted = {}
        /\ sm.status = IF sm.nodev THEN 404 ELSE 400

\* when send answers delivered:false its row is committed: it is in the
\* queue until a fetch returns it, and it is returned once
QueuedIsStored ==
    (sm.pc = "idle" /\ sm.status = 201) =>
        \A i \in sm.inserted : i \in QueueOf(sm.to) \/ delivered[i] = 1

\* the drain p of a recipient, alone, returned every row queued when it
\* started, and none of them is left for the drain that follows
DrainedAll(p) ==
    /\ fq[p].got = fq[p].seen
    /\ \A i \in fq[p].seen : delivered[i] = 1
    /\ fq[p].seen \cap QueueOf(fq[p].user) = {}

\* C12 as claimed: a queued message is committed when send answers, the
\* recipient's next fetch returns it exactly once, and a fetch right after
\* that finds none of the rows the first one saw.
C12_NextFetchReturnsAll ==
    /\ QueuedIsStored
    /\ \A p \in FProcs : (fq[p].done /\ fq[p].solo) => DrainedAll(p)

\* C12 as amended: the same, for a fetch whose limit is not below the number
\* of rows queued for the recipient when it starts.
C12_StoreAndForward ==
    /\ QueuedIsStored
    /\ \A p \in FProcs :
           (fq[p].done /\ fq[p].solo /\ Cardinality(fq[p].seen) <= fq[p].limit)
           => DrainedAll(p)

\* bob's message was queued, alice's next fetch returned it and the fetch
\* after that found nothing
C12_Witness ==
    /\ sm.pc = "idle" /\ sm.status = 201
    /\ \E p, q \in FProcs :
          /\ p # q
          /\ fq[p].done /\ fq[p].solo /\ sm.messageId \in fq[p].got
          /\ fq[q].done /\ fq[q].solo /\ fq[q].seen = {}
    /\ QueueOf("alice") = {}

\* C14: deleteMessages(caller, messageIds) deletes the rows whose id is
\* listed and whose recipient is the caller, and no other row: a listed row
\* of another recipient stays.
C14_AckOwnRowsOnly ==
    ak.status = 200 =>
        /\ \A m \in ak.removed : m.id \in ak.ids /\ m.to = ak.caller
        /\ \A m \in queue : ~ (m.id \in ak.ids /\ m.to = ak.caller)
        /\ ak.deleted = Cardinality(ak.removed)

\* the caller listed a row of its own and a row of the other user: the first
\* is gone, the second is still queued
C14_Witness ==
    /\ ak.status = 200 /\ ak.removed # {}
    /\ \E m \in queue : m.id \in ak.ids /\ m.to # ak.caller

\* the response of a finished drain
FetchResponse(p) == OrderByCreatedAt(fq[p].got)

\* a drain of n rows with limit l, undisturbed, returned the min(l, n) oldest
\* rows, oldest first
ReturnedOldest(p) ==
    LET r == fq[p]
        n == Cardinality(r.seen)
        resp == FetchResponse(p)
    IN /\ r.got \subseteq r.seen
       /\ Cardinality(r.got) = IF r.limit < n THEN r.limit ELSE n
       /\ \A i \in r.got, j \in r.seen \ r.got : i < j
       /\ Len(resp) = Cardinality(r.got)
       /\ \A a, b \in 1..Len(resp) : a < b => resp[a] < resp[b]

\* the step that ends the drain p deletes the rows it returns and no other
DeletesReturned(p) ==
    (fq[p].pc # "idle" /\ fq'[p].pc = "idle") =>
        /\ queue' = {m \in queue : m.id \notin fq'[p].got}
        /\ \A m \in queue \ queue' : m.to = fq[p].user
        /\ \A i \in fq'[p].got : \E m \in queue : m.id = i

\* C13: fetchOffline(recipient, limit) on a queue holding n rows of the
\* recipient returns the min(limit, n) rows with the smallest createdAt in
\* ascending order, deletes exactly those rows and leaves the recipient's
\* newer rows and the rows of every other recipient as they were.
C13_FetchOldest ==
    /\ [](\A p \in FProcs : (fq[p].done /\ fq[p].solo) => ReturnedOldest(p))
    /\ [][\A p \in FProcs : DeletesReturned(p)]_vars

\* a drain cut by its limit returned the oldest rows; the newer ones and the
\* other user's rows are still queued
C13_Witness ==
    \E p \in FProcs :
        /\ fq[p].done /\ fq[p].solo /\ fq[p].got # {}
        /\ Cardinality(fq[p].seen) > fq[p].limit
        /\ (fq[p].seen \ fq[p].got) \subseteq QueueOf(fq[p].user)
        /\ \E m \in queue : m.to # fq[p].user

\* the step answers the verifyChallenge request of worker p
Answers(p) == vc'[p].pc = "idle" /\ vc'[p] # vc[p]

\* ... for a username that is not registered
AnswersUnknownUser(p) == Answers(p) /\ vc[p].pc = "idle"

\* ... of a known user with an active challenge and a wrong signature
AnswersWrongSignature(p) ==
    /\ Answers(p)
    /\ \/ vc[p].pc = "findChallenge" /\ vc'[p].found # 0 /\ vc[p].sig # vc'[p].found
       \/ vc[p].pc \in {"deleteChallenge", "deleteWait"} /\ ~vc[p].valid

\* ... of a known user with no active challenge (none issued, consumed or
\* expired)
AnswersNoChallenge(p) ==
    Answers(p) /\ vc[p].pc = "findChallenge" /\ vc'[p].found = 0

GenericFailure(r) == r.status = 401 /\ r.body = AuthFailedBody

\* C15: verifyChallenge answers an unknown username and a known user with an
\* active challenge and a wrong signature alike: 401 with the generic body.
C15_Generic401 ==
    [][\A p \in VProcs :
          (AnswersUnknownUser(p) \/ AnswersWrongSignature(p)) => GenericFailure(vc'[p])]_vars

\* C16: verifyChallenge answers a known user without an active challenge as
\* it answers an unknown username: 401 with the generic body.
C16_NoChallengeGeneric ==
    [][\A p \in VProcs :
          (AnswersUnknownUser(p) \/ AnswersNoChallenge(p)) => GenericFailure(vc'[p])]_vars

\* the Device row of the session (u, d)
SessionRow(u, d) == [user |-> u, dev |-> d]

\* C17: logout(U, D) removes the Device row (U, D) and nothing else, the rows
\* of other users included; after it a request with the token of (U, D) is
\* rejected, and deleting once more changes nothing.
C17_LogoutRemovesOwnRow ==
    [][(rq.pc = "logout" /\ rq'.pc = "idle") =>
          LET row == SessionRow(rq.user, rq.dev)
          IN /\ devices' = devices \ {row}
             /\ \A r \in devices : r.user # rq.user => r \in devices'
             /\ ~ \E r \in devices' : r.user = rq.user /\ r.dev = rq.dev
             /\ devices' \ {row} = devices']_vars

\* alice has logged out of a device she was logged in on; bob's row is there
C17_Witness ==
    /\ rq.pc = "idle" /\ rq.status = 200 /\ rq.user = "alice"
    /\ authenticate(rq.user, rq.dev) = 401
    /\ \E r \in devices : r.user = "bob"

\* the sockets the registry holds
RegisteredSockets == {onlineClients[k] : k \in ClientKeys} \ {0}

\* C18: a socket is in the registry only if in its handshake the token
\* verified and a Device row of the token's (userId, deviceId) existed; a
\* handshake with no token, an invalid token or no Device row is rejected
\* and leaves the registry as it was.
C18_RegistryNeedsHandshake ==
    /\ [](\A k \in ClientKeys :
             onlineClients[k] # 0 =>
                 LET s == socks[onlineClients[k]]
                 IN s.verified /\ s.hadDevice /\ k = clientKey(s.user, s.dev))
    /\ [](\A id \in Sockets :
             (socks[id].st # "new" /\ ~(socks[id].verified /\ socks[id].hadDevice))
             => socks[id].st = "rejected" /\ id \notin RegisteredSockets)
    /\ [][\A id \in Sockets :
             (socks[id].st = "new" /\ socks'[id].st = "rejected")
             => onlineClients' = onlineClients]_vars

\* alice, logged in on X, asks for a challenge and logs in again, on X or
\* on Y, one request at a time, while her clients connect and disconnect
NextTakeover ==
    /\ \/ SocketStep /\ UNCHANGED authVars
       \/ /\ \/ IssueStart("i1", "alice")
             \/ IssueInsertCommit("i1")
             \/ \E d \in DeviceIds, s \in 0..nextNonce : VerifyStart("v1", "alice", d, s)
             \/ VerifyFindChallenge("v1")
             \/ VerifyDeleteChallenge("v1")
             \/ VerifyDeleteWait("v1")
             \/ VerifyUpsertDelete("v1")
             \/ VerifyUpsertInsert("v1")
             \/ VerifyRespond("v1")
          /\ UNCHANGED sockVars
    /\ UNCHANGED <<regVars, keyVars, queueVars, schedVars, soloVars>>

SpecTakeover == InitLoggedIn /\ [][NextTakeover]_vars

\* alice is registered with a socket whose handshake passed; a handshake
\* with no token or a bad one and a handshake for a session without Device
\* row were rejected
C18_Witness ==
    /\ RegisteredSockets # {}
    /\ \E id \in Sockets : socks[id].st = "rejected" /\ ~socks[id].verified
    /\ \E id \in Sockets : socks[id].st = "rejected" /\ socks[id].verified /\ ~socks[id].hadDevice

\* the tasks node-cron runs
RunningTasks == {t \in CronTaskIds : cronTasks[t].running}

\* C20: after any sequence of start() and stop() calls two jobs are
\* scheduled, one of each kind, if the last call that took effect was start()
\* and none if it was stop(); so a second start() adds no job and a start()
\* after a stop() schedules the two jobs again.
C20_SchedulerLifecycle ==
    /\ lastCall = "start" =>
           /\ Cardinality(RunningTasks) = 2
           /\ {cronTasks[t].job : t \in RunningTasks} = {"authChallenges", "messageQueue"}
           /\ started
    /\ lastCall # "start" => RunningTasks = {} /\ ~started

\* the service was started, stopped and started again: the two jobs of the
\* second start run, those of the first do not
C20_Witness ==
    /\ lastCall = "start"
    /\ Cardinality(RunningTasks) = 2
    /\ \E t \in CronTaskIds : cronTasks[t].job # None /\ ~cronTasks[t].running

\* the last run of the queue reaper ended without an error
ReaperDone == reap["messageQueue"].outcome = "ok"

\* expiresAt < t or createdAt < t - 30 days
DueAt(m, t) == m.expires < t \/ m.created < t - Days(MESSAGE_RETENTION_DAYS)

\* a statement of the queue reaper deletes the rows it reports and no other
ReaperFrame ==
    reap'["messageQueue"] # reap["messageQueue"] =>
        queue' = queue \ reap'["messageQueue"].last

ReaperJobs == {"authChallenges", "messageQueue"}

\* the step is a tick of job j that failed
TickFailed(j) == reap'[j] # reap[j] /\ reap'[j].outcome = "failed"

\* the challenge reaper deletes the rows it reports, all of them expired
ChallengeReaperDeletesExpired ==
    reap'["authChallenges"] # reap["authChallenges"] =>
        /\ challenges' = challenges \ reap'["authChallenges"].last
        /\ \A c \in reap'["authChallenges"].last : c.expires < now

\* a failed tick changes no table, leaves every task scheduled as it was and
\* does not touch the other job
FailedTickContinues ==
    \A j \in ReaperJobs :
        TickFailed(j) =>
            /\ cronTasks' = cronTasks /\ tasks' = tasks /\ started' = started
            /\ challenges' = challenges /\ queue' = queue
            /\ \A o \in ReaperJobs \ {j} : reap'[o] = reap[o]

\* C22: the challenge reaper deletes only AuthChallenge rows with
\* expiresAt < now; a tick of either job that fails stops neither that job
\* nor the other one.
C22_ReaperFailuresContinue ==
    [][ChallengeReaperDeletesExpired /\ FailedTickContinues]_vars

\* both jobs have failed once and then run again: the challenge reaper
\* deleted an expired challenge and left one that has not expired
C22_Witness ==
    /\ \A j \in ReaperJobs : reap[j].failedBefore /\ reap[j].outcome = "ok"
    /\ reap["authChallenges"].removed # {}
    /\ \E c \in challenges : c.expires > now


\* the bundles returned for u since the last upload
Bundles(u) == stock[u].withKey + stock[u].without

\* no getPreKeyBundle call is in flight
KeysQuiet == \A p \in GProcs : gb[p].pc = "idle"

\* C23: for a user with a signed pre-key and k one-time keys uploaded, once
\* n >= k getBundle calls made after the upload have returned, in sequence
\* or concurrently, k of the bundles carry a one-time key, n - k carry none
\* and countOneTimeKeys is 0; before that no key is gone that no bundle
\* carried.
C23_KeyExhaustion ==
    \A u \in Users :
        stock[u].clean =>
            /\ stock[u].withKey + countByUserId(u) = stock[u].avail
            /\ (KeysQuiet /\ Bundles(u) >= stock[u].avail) =>
                   /\ stock[u].withKey = stock[u].avail
                   /\ stock[u].without = Bundles(u) - stock[u].avail
                   /\ countByUserId(u) = 0

\* two keys were uploaded and three calls returned, one of which waited for
\* another: two bundles with a key, one without
C23_Witness ==
    /\ KeysQuiet
    /\ stock["alice"].clean /\ stock["alice"].avail = 2
    /\ stock["alice"].withKey = 2 /\ stock["alice"].without = 1
    /\ \E p \in GProcs : gb[p].waited


\* the registry entries of a user
EntriesOf(userId) == {k \in ClientKeys : k[1] = userId /\ onlineClients[k] # 0}

\* C24: the registry holds at most one entry per userId in every reachable
\* state, so findOnlineDeviceForUser has at most one candidate, also when
\* device X connects and device Y then takes over the session through
\* verifyChallenge and connects too.
C24_OneEntryPerUser ==
    \A u \in Users : Cardinality(EntriesOf(u)) <= 1


\* the usernames of the users table, with the number of rows of each
RowsNamed(name) ==
    Cardinality({r \in registered : r.username = name}) + Cardinality(Users \cap {name})

\* C25: under any interleaving of register calls no two User rows share a
\* username, and every register call for a username that already exists
\* returns 409 Conflict and creates no row.
C25_UniqueUsernames ==
    /\ \A name \in RegisterNames : RowsNamed(name) <= 1
    /\ \A p \in RProcs : rg[p].dup => rg[p].status = 409 /\ rg[p].created = 0


\* the step is a deleteMessages request
AckStep == ak' # ak

\* ackDelete with the ids a completed fetchOffline of the caller returned
AckOfDrained ==
    \A p \in FProcs :
        (/\ AckStep
         /\ fq[p].pc = "idle" /\ fq[p].done
         /\ ak'.caller = fq[p].user /\ ak'.ids = fq[p].got)
        => queue' = queue /\ ak'.deleted = 0

\* ackDelete with the ids of the caller's oldest rows removes the rows a
\* fetchOffline with that limit would remove
AckOfOldest ==
    (/\ AckStep /\ ak'.status = 200
     /\ ak'.ids = FirstN(QueueOf(ak'.caller), Cardinality(ak'.ids)))
    => /\ queue' = {m \in queue : m.id \notin ak'.ids}
       /\ \A m \in queue \ queue' : m.to = ak'.caller
       /\ ak'.deleted = Cardinality(ak'.ids)

\* C26: after fetchOffline has returned a set of rows, ackDelete with
\* exactly those ids deletes zero rows and leaves the queue unchanged;
\* ackDelete of the ids of the oldest rows removes the same rows a
\* fetchOffline would have removed.
C26_AckAfterFetchNoOp == [][AckOfDrained /\ AckOfOldest]_vars

\* a fetch returned rows, the ack of exactly those ids deleted none, and
\* other rows are still queued
C26_Witness ==
    /\ fq["f1"].pc = "idle" /\ fq["f1"].done /\ fq["f1"].got # {}
    /\ ak.status = 200 /\ ak.caller = fq["f1"].user /\ ak.ids = fq["f1"].got
    /\ ak.deleted = 0
    /\ queue # {}


\* the signed pre-key a request reads is a row of the user with the
\* greatest created_at
BundleLatest ==
    \A p \in GProcs :
        (gb[p].pc = "signedPreKey" /\ gb'[p].pc = "select") =>
            \E k \in spks :
                /\ k.user = gb[p].user /\ k.keyId = gb'[p].spk
                /\ \A o \in spks : o.user = k.user => o.created <= k.created

\* the bundle returned carries the signed pre-key that was read
BundleCarries ==
    \A p \in GProcs :
        (gb[p].pc # "idle" /\ gb'[p].status = 200) =>
            gb'[p].spk = gb[p].spk /\ gb[p].spk # None

\* the request of p ends in this step
Returns(p) == gb[p].pc # "idle" \/ gb'[p] # gb[p]

\* a request for an unknown user or for a user without a signed pre-key is
\* answered NotFound, and a NotFound leaves the one-time pre-keys alone
NotFoundConsumesNothing ==
    \A p \in GProcs :
        /\ (gb[p].pc = "idle" /\ gb'[p] # gb[p] /\ gb'[p].user \notin Users)
              => gb'[p].status = 404
        /\ (gb[p].pc = "signedPreKey" /\ gb'[p] # gb[p]
               /\ ~ \E k \in spks : k.user = gb[p].user)
              => gb'[p].status = 404
        /\ (Returns(p) /\ gb'[p].pc = "idle" /\ gb'[p].status = 404)
              => /\ otks' = otks /\ handed' = handed
                 /\ gb[p].pc \in {"idle", "signedPreKey"}

\* C27: getBundle(U) returns a bundle whose signed pre-key is U's row with
\* the greatest createdAt; when the user does not exist or has no signed
\* pre-key it returns NotFound and the one-time key store is unchanged.
C27_BundleLatestSignedPreKey ==
    [][BundleLatest /\ BundleCarries /\ NotFoundConsumesNothing]_vars


\* a request carrying a signature over a superseded nonce never gets past
\* the signature check
StaleNeverSucceeds ==
    \A p \in VProcs : vc[p].stale => vc[p].status # 200 /\ ~Upserting(vc[p])

\* a request that got past the signature check carries the signature over
\* the nonce of the challenge it found, which is one that was returned
OnlyCurrentSucceeds ==
    \A p \in VProcs :
        Upserting(vc[p]) =>
            /\ vc[p].sig = vc[p].found
            /\ \E e \in issued.returned :
                  e.nonce = vc[p].found /\ e.user = vc[p].user

\* C28: after issueChallenge has returned N1 and a later issueChallenge
\* for the same user has returned N2, a verifyChallenge carrying a valid
\* signature over N1 fails, and only a signature over N2 can succeed.
C28_ChallengeReplaced == StaleNeverSucceeds /\ OnlyCurrentSucceeds

\* N1 and then N2 were returned; the signature over N1 was refused and the
\* signature over N2 was accepted
C28_Witness ==
    \E p \in VProcs, q \in VProcs :
        /\ vc[p].stale /\ vc[p].status \in {400, 401}
        /\ vc[q].status = 200 /\ ~vc[q].stale
        /\ \E n \in issued.superseded : n < vc[q].found

\* logins of registered users on one device while the clock runs, the
\* challenges coming from one client
NextExpiry ==
    /\ \/ \E p \in VProcs, name \in Users, s \in 0..nextNonce :
             VerifyStart(p, name, "X", s)
       \/ \E p \in VProcs : VerifyFindChallenge(p)
       \/ \E p \in VProcs : VerifyDeleteChallenge(p)
       \/ \E p \in VProcs : VerifyDeleteWait(p)
       \/ \E p \in VProcs : VerifyUpsertDelete(p)
       \/ \E p \in VProcs : VerifyUpsertInsert(p)
       \/ \E p \in VProcs : VerifyRespond(p)
       \/ \E name \in Users : IssueStart("i1", name)
       \/ IssueInsertCommit("i1")
       \/ Tick
    /\ UNCHANGED <<regVars, keyVars, sockVars, queueVars, schedVars, soloVars>>

SpecExpiry == InitServer /\ [][NextExpiry]_vars

\* a request that arrived when the challenge it signed had expired never
\* gets past the signature check
LateNeverSucceeds ==
    \A p \in VProcs : vc[p].late => vc[p].status # 200 /\ ~Upserting(vc[p])

\* the steps of such a request change no Device row and mint no token
LateFrame ==
    \A p \in VProcs :
        (vc'[p] # vc[p] /\ vc'[p].late)
            => devices' = devices /\ tokens' = tokens

\* C29: a verifyChallenge performed at a time not earlier than the
\* challenge's expiresAt never succeeds, even with a valid signature over
\* its nonce; it issues no token and leaves the Device rows unchanged.
C29_ExpiredNeverVerifies == []LateNeverSucceeds /\ [][LateFrame]_vars

\* the challenge row was still there, expired, when the request carrying
\* the signature over its nonce arrived; the request was refused
C29_Witness ==
    \E p \in VProcs :
        vc[p].late /\ vc[p].status \in {400, 401} /\ now >= ChallengeTtl

\* the responses of a failed verifyChallenge: unknown user and invalid
\* signature (401), no active challenge (400)
AuthFailures == {400, 401}

\* the device upsert is entered only by a request whose signature verified
UpsertOnlyIfValid ==
    \A p \in VProcs : Upserting(vc[p]) => vc[p].valid /\ vc[p].user \in Users

\* the steps of a request outside the device upsert change no Device row
\* and mint no token; a request that fails was never inside it
FailedLoginFrame ==
    \A p \in VProcs :
        /\ (vc'[p] # vc[p] /\ ~Upserting(vc[p]))
              => devices' = devices /\ tokens' = tokens
        /\ (vc'[p] # vc[p] /\ Upserting(vc[p]))
              => Upserting(vc'[p]) \/ vc'[p].status \in {200, 500}
        /\ (vc'[p] # vc[p] /\ vc'[p].status \in AuthFailures)
              => ~Upserting(vc[p])

\* C30: a verifyChallenge that fails (unknown user, no active challenge,
\* or invalid signature) issues no token and leaves every Device row
\* unchanged, so a failed login never logs out the existing session.
C30_FailedLoginKeepsSession == []UpsertOnlyIfValid /\ [][FailedLoginFrame]_vars

\* a login succeeded, a later one with an invalid signature was refused,
\* and the Device row of the first is still there
C30_Witness ==
    \E p \in VProcs, q \in VProcs :
        /\ vc[q].status = 200
        /\ vc[p].status = 401 /\ vc[p].found > vc[q].found
        /\ DevicesOf("alice") # {} /\ <<"alice", lastLogin["alice"].dev>> \in tokens


\* fetchOfflineMessages computes its limit, for every query parameter
NextLimit ==
    ComputeLimit /\ UNCHANGED <<authVars, regVars, keyVars, sockVars, queueVars, schedVars>>

InitLimit ==
    /\ InitAuth /\ RegisterIdle /\ KeysIdle /\ SocketsIdle /\ QueueIdle /\ SchedulerIdle
    /\ \E q \in Queries : lim = [query |-> q, limit |-> 0]
    /\ dk = IdleDk
    /\ wire = NoWire
    /\ touch = NoTouch /\ revoked = {} /\ uploads = {}

SpecLimit == InitLimit /\ [][NextLimit]_vars

\* the number the parameter stands for, where it stands for one
Numeric(q) == q.present /\ ~parseInt(q.text).nan

\* C31: the effective limit of fetchOffline is in 1..100 for every value of
\* the limit parameter: absent, non-numeric or 0 gives 100, a negative
\* value gives 1, a value above 100 gives 100, a value in 1..100 is used
\* as is.
C31_LimitClamped ==
    lim.limit # 0 =>
        LET q == lim.query
            v == parseInt(q.text).val
        IN /\ lim.limit \in 1..100
           /\ (~Numeric(q) \/ v = 0) => lim.limit = 100
           /\ (Numeric(q) /\ v < 0) => lim.limit = 1
           /\ (Numeric(q) /\ v > 100) => lim.limit = 100
           /\ (Numeric(q) /\ v \in 1..100) => lim.limit = v

\* a negative limit was clamped to 1
C31_Witness ==
    /\ lim.query.present /\ lim.query.text = <<"-", "1", "7">>
    /\ lim.limit = 1


\* alice and bob upload signed pre-keys as time passes, and old keys of
\* one of them are deleted
NextRetention ==
    /\ \/ (\E u \in Accounts, kid \in SignedKeyIds : UploadSignedPreKey(u, kid))
             /\ UNCHANGED <<authVars, soloVars>>
       \/ (\E u \in Accounts, n \in 0..MaxKeep : DeleteOldSelect(u, n))
             /\ UNCHANGED <<authVars, otks, nextOtk, gb, handed, stock>>
       \/ DeleteOldDelete /\ UNCHANGED <<authVars, otks, nextOtk, gb, handed, stock>>
       \/ Tick /\ UNCHANGED <<keyVars, soloVars>>
    /\ UNCHANGED <<regVars, sockVars, queueVars, schedVars>>

SpecRetention == InitServer /\ [][NextRetention]_vars

\* the call returns in this step
DeleteOldReturns == dk' # dk /\ dk'.pc = "idle"

\* C32: for every user U and every keepLatest N >= 0, after
\* deleteOldKeys(U, N) at most N signed pre-key rows remain for U, they are
\* the N rows with the greatest createdAt, and the rows of every other
\* user are unchanged.
C32_RetentionKeepsLatest ==
    [][DeleteOldReturns =>
         LET u == dk'.user
             rest == {k \in spks' : k.user = u}
         IN /\ Cardinality(rest) <= dk'.n
            /\ rest \subseteq SpksOf(u)
            /\ \A k \in rest, o \in SpksOf(u) \ rest : o.created <= k.created
            /\ {k \in spks' : k.user # u} = {k \in spks : k.user # u}]_vars


\* a message is sent to an offline recipient and fetched, for every
\* ciphertext string
NextWire ==
    (SendCiphertext \/ FetchCiphertext)
        /\ UNCHANGED <<authVars, regVars, keyVars, sockVars, queueVars, schedVars>>

InitWire ==
    /\ InitAuth /\ RegisterIdle /\ KeysIdle /\ SocketsIdle /\ QueueIdle /\ SchedulerIdle
    /\ lim = NoLimit /\ dk = IdleDk /\ touch = NoTouch /\ revoked = {} /\ uploads = {}
    /\ \E c \in Ciphertexts : wire = [NoWire EXCEPT !.sent = c]

SpecWire == InitWire /\ [][NextWire]_vars

\* C33: for every ciphertext string that send's validation accepts and
\* that is queued, the ciphertext string later returned by fetchOffline
\* for that message equals the string that was sent.
C33_CiphertextRoundTrip == wire.fetched => wire.returned = wire.sent


\* alice, logged in on X, sends bearer requests and logs out and in again
\* while the updates of last_seen_at settle in any order
NextBearer ==
    /\ \/ \E d \in DeviceIds :
             /\ Authenticate("alice", d)
             /\ touch' = IF authenticate("alice", d) = 401 THEN touch
                         ELSE StartUpdate(touch, "alice", d)
       \/ /\ \/ Logout
             \/ IssueStart("i1", "alice")
             \/ IssueInsertCommit("i1")
             \/ \E s \in 0..nextNonce : VerifyStart("v1", "alice", "X", s)
             \/ VerifyFindChallenge("v1")
             \/ VerifyDeleteChallenge("v1")
             \/ VerifyUpsertDelete("v1")
             \/ VerifyUpsertInsert("v1")
             \/ VerifyRespond("v1")
          /\ touch' = MarkGone(touch, devices')
       \/ \E ok \in BOOLEAN : UpdateLastSeen(ok)
    /\ UNCHANGED <<lim, dk, wire, revoked, uploads>>
    /\ UNCHANGED <<regVars, keyVars, sockVars, queueVars, schedVars>>

SpecBearer == InitLoggedIn /\ [][NextBearer]_vars

\* the request reaches its handler in the step in which the update is
\* started
HandlerNotBlocked ==
    (rq.pc = "idle" /\ rq'.pc = "logout") =>
        \E e \in touch'.pending : e.row = [user |-> rq'.user, dev |-> rq'.dev]

\* an update that settles, whichever way, leaves the request and the rows
\* of the devices table as they are
UpdateSettles ==
    touch'.settled # touch.settled => rq' = rq /\ devices' = devices /\ tokens' = tokens

\* C34: the lastSeenAt update of the bearer middleware never affects the
\* outcome of the request: the request proceeds to its handler whether the
\* update succeeds, fails or is still pending, and the update never
\* re-creates a Device row that was deleted in the meantime.
C34_LastSeenUpdateHarmless == [][HandlerNotBlocked /\ UpdateSettles]_vars

\* the handler finished and deleted the row while the update was pending,
\* and the update then found no row
C34_Witness ==
    /\ rq.pc = "idle" /\ rq.status = 200
    /\ touch.last = "norow" /\ touch.pending = {}
    /\ DevicesOf("alice") = {}


\* the requests that checked a signature against nonce n and have not been
\* replaced by a later request of the same worker
CheckedAgainst(n) ==
    {p \in VProcs : vc[p].found = n /\ vc[p].pc \notin {"findChallenge"}}

\* C35: at most one verifyChallenge call succeeds per issued nonce: under
\* any interleaving of concurrent calls for the same user against the same
\* active challenge, the nonce is used for at most one signature check and
\* at most one call mints a token.
C35_OneSuccessPerNonce ==
    \A n \in 1..nextNonce :
        /\ Cardinality(CheckedAgainst(n)) <= 1
        /\ Cardinality({p \in VProcs : vc[p].status = 200 /\ vc[p].found = n}) <= 1


\* alice, logged in on X, logs in again on Y while her clients connect and
\* disconnect and bob sends her messages
NextPush ==
    /\ \/ /\ \/ \E d \in DeviceIds : Handshake(<<"alice", d>>)
             \/ \E id \in Sockets : OnConnection(id, TRUE)
             \/ \E id \in Sockets : DisconnectEvent(id)
          /\ UNCHANGED <<authVars, queueVars>>
       \/ /\ \/ IssueStart("i1", "alice")
             \/ IssueInsertCommit("i1")
             \/ \E s \in 0..nextNonce : VerifyStart("v1", "alice", "Y", s)
             \/ VerifyFindChallenge("v1")
             \/ VerifyDeleteChallenge("v1")
             \/ VerifyUpsertDelete("v1")
             \/ VerifyUpsertInsert("v1")
             \/ VerifyRespond("v1")
          /\ UNCHANGED <<sockVars, queueVars>>
       \/ /\ \/ sendMessage("bob", "alice", "ok")
             \/ SendRelay
             \/ SendInsert
          /\ UNCHANGED <<authVars, sockVars>>
    /\ UNCHANGED <<regVars, keyVars, schedVars, soloVars>>

SpecPush == InitRelay /\ [][NextPush]_vars

\* C36: send never emits a new_message event to a socket whose
\* (userId, deviceId) Device row no longer exists; after device Y took over
\* the session of U, a message for U is not pushed to the still-connected
\* socket of the revoked device X.
C36_PushOnlyToCurrentSession ==
    [][\A id \in sm'.emitted \ sm.emitted :
          findByUserIdAndDeviceId(socks[id].user, socks[id].dev) # {}]_vars


\* A client keeps the token it was given: Authenticate(u, d) is a request
\* carrying a token whose payload is (u, d), the first one minted for the
\* pair included, since jwt.verify and the Device lookup read the payload
\* only.  alice, logged in on X, sends bearer requests, logs out, and logs
\* in again on X or on Y.
NextRevocation ==
    /\ \/ \E d \in DeviceIds :
             /\ Authenticate("alice", d)
             /\ revoked' = IF authenticate("alice", d) = 401
                           THEN revoked \cup {<<"alice", d>>}
                           ELSE revoked
       \/ /\ \/ Logout
             \/ IssueStart("i1", "alice")
             \/ IssueInsertCommit("i1")
             \/ \E d \in DeviceIds, s \in 0..nextNonce : VerifyStart("v1", "alice", d, s)
             \/ VerifyFindChallenge("v1")
             \/ VerifyDeleteChallenge("v1")
             \/ VerifyUpsertDelete("v1")
             \/ VerifyUpsertInsert("v1")
             \/ VerifyRespond("v1")
          /\ UNCHANGED revoked
    /\ UNCHANGED <<lim, dk, wire, touch, uploads>>
    /\ UNCHANGED <<regVars, keyVars, sockVars, queueVars, schedVars>>

SpecRevocation == InitLoggedIn /\ [][NextRevocation]_vars

\* C37: once a token for (U, D) has been rejected because its Device row
\* was removed by logout or by a takeover, that same token is never
\* accepted by a later request, whatever sequence of issueChallenge,
\* verifyChallenge and logout calls follows.
C37_RevocationPermanent ==
    [][(rq.pc = "idle" /\ rq'.pc = "logout")
          => <<rq'.user, rq'.dev>> \notin revoked]_vars


\* app.use('/api/keys', apiLimiter, authenticate, keyRoutes): the caller
\* holds a token whose Device row exists; the routes read user_id from the
\* body of the request
Authenticated(caller) ==
    \E d \in DeviceIds :
        <<caller, d>> \in tokens /\ authenticate(caller, d) # 401

\* router.post('/signed-pre-key') with body.user_id = user_id
PostSignedPreKey(caller, user_id, kid) ==
    /\ Authenticated(caller)
    /\ UploadSignedPreKey(user_id, kid)
    /\ uploads' = uploads \cup {[table |-> "signed", user |-> user_id, by |-> caller]}

\* router.post('/one-time-pre-keys') with body.user_id = user_id
PostOneTimePreKeys(caller, user_id, n) ==
    /\ Authenticated(caller)
    /\ UploadOneTimePreKeys(user_id, n)
    /\ uploads' = uploads \cup {[table |-> "oneTime", user |-> user_id, by |-> caller]}

\* alice and bob, both logged in, upload pre-keys as time passes
NextOwnership ==
    /\ \/ /\ \/ \E caller \in Accounts, u \in Users, kid \in SignedKeyIds :
                   PostSignedPreKey(caller, u, kid)
             \/ \E caller \in Accounts, u \in Users, n \in 1..2 :
                   PostOneTimePreKeys(caller, u, n)
          /\ UNCHANGED authVars
       \/ Tick /\ UNCHANGED <<keyVars, uploads>>
    /\ UNCHANGED <<lim, dk, wire, touch, revoked>>
    /\ UNCHANGED <<regVars, sockVars, queueVars, schedVars>>

SpecOwnership == InitRelay /\ [][NextOwnership]_vars

\* C38: after any sequence of bearer-authenticated uploadSignedPreKey and
\* uploadOneTimePreKeys requests, every signed or one-time pre-key row
\* stored for user U was uploaded by a caller authenticated as U; an
\* authenticated caller cannot add or replace another user's pre-keys.
C38_PreKeyOwnership == \A e \in uploads : e.by = e.user


\* the sockets that were registered under the key k: their connection
\* handler ran
RegisteredUnder(k) ==
    {id \in Sockets : /\ socks[id].st \in {"connected", "closing", "closed"}
                      /\ clientKey(socks[id].user, socks[id].dev) = k}

\* C39: for every key userId:deviceId, once every socket that was ever
\* registered under the key has had its disconnect event processed, the
\* registry contains no entry for the key, for every interleaving of
\* connects, forced disconnects and disconnect events.
C39_NoRegistryLeak ==
    \A k \in ClientKeys :
        (\A id \in RegisteredUnder(k) : socks[id].st = "closed")
            => onlineClients[k] = 0

\* two sockets were registered under one key, the first was kicked by the
\* second and its disconnect event came late; both are closed and the
\* entry is gone
C39_Witness ==
    \E k \in ClientKeys :
        /\ Cardinality(RegisteredUnder(k)) >= 2
        /\ \A id \in RegisteredUnder(k) : socks[id].st = "closed"
        /\ \E id \in RegisteredUnder(k) : socks[id].kicked /\ socks[id].stale
        /\ onlineClients[k] = 0

====
